---- MODULE Spec2Model ----
(***************************************************************************)
(* PLNexus: the span tracer (shared/Tracer.js), the tracing switch of the  *)
(* EnvironmentService and the callers that drive them.                     *)
(*                                                                         *)
(* Strings that the code transforms (toUpperCase, toLowerCase, template    *)
(* concatenation) are sequences of one-character strings; strings that the *)
(* code only compares or stores are TLA+ strings.  An Error object is      *)
(* identified with its message.  Date.now() is the variable now, which     *)
(* only moves forward.                                                     *)
(***************************************************************************)
EXTENDS Integers, Sequences, FiniteSets, TLC

VARIABLES
    tracer,         \* the Tracer singleton: projectRoot, traceFile, isInitialized, sessionID
    enableTracing,  \* EnvironmentService.#config.enableTracing
    env,            \* process.env: ENABLE_TRACING, LOG_LEVEL
    fs,             \* the trace files: path -> sequence of lines
    diag,           \* what was passed to logger.error, in order
    now,            \* Date.now()
    pendingInit,    \* initialize() calls suspended on mkdir
    stack,          \* traceSpan() calls whose operation is running, innermost last
    ret,            \* the call that completed last, with its outcome
    seed,           \* the draws of Math.random() so far
    ncalls,         \* record and traceSpan calls issued so far
    faults,         \* mkdir and appendFile failures so far
    main,           \* bootstrap() of main.js: its position, inputs, context and exit status
    manifestFile    \* config/adapters.manifest.json under the project root

vars == <<tracer, enableTracing, env, fs, diag, now, pendingInit, stack, ret, seed, ncalls,
          faults, main, manifestFile>>

\* ---------------------------------------------------------------- bounds
MaxCalls == 1
MaxFaults == 1
MaxLoads == 2
MaxPeerLines == 2
MaxOverlap == 2

\* Date.now() when the process starts, in seconds since the epoch, and the default
\* failure rate of the mock adapter, in percent
StartTime == 1766400000
DefaultFailureRate == 5

\* ---------------------------------------------------------------- values
Undefined == "undefined"
Null == "null"

Returned(v) == [status |-> "returned", value |-> v]
Threw(e) == [status |-> "threw", value |-> e]

\* {} : the default of data and meta
EmptyObject == [k \in {} |-> Undefined]

Has(obj, key) == key \in DOMAIN obj

\* durationMs is a number and error the message of an error: neither is undefined
IsUndefined(obj, key) == key \notin {"durationMs", "error"} /\ obj[key] = Undefined

\* { ...a, ...b } : the keys of b win
Spread(a, b) == b @@ a

\* ---------------------------------------------------------------- strings
LowerChars == <<"a", "b", "c", "d", "e", "f", "g", "h", "i", "j", "k", "l", "m",
                "n", "o", "p", "q", "r", "s", "t", "u", "v", "w", "x", "y", "z">>
UpperChars == <<"A", "B", "C", "D", "E", "F", "G", "H", "I", "J", "K", "L", "M",
                "N", "O", "P", "Q", "R", "S", "T", "U", "V", "W", "X", "Y", "Z">>

UpperChar(c) ==
    IF \E i \in DOMAIN LowerChars : LowerChars[i] = c
    THEN UpperChars[CHOOSE i \in DOMAIN LowerChars : LowerChars[i] = c]
    ELSE c

LowerChar(c) ==
    IF \E i \in DOMAIN UpperChars : UpperChars[i] = c
    THEN LowerChars[CHOOSE i \in DOMAIN UpperChars : UpperChars[i] = c]
    ELSE c

toUpperCase(s) == [i \in DOMAIN s |-> UpperChar(s[i])]
toLowerCase(s) == [i \in DOMAIN s |-> LowerChar(s[i])]

\* ---------------------------------------------------------------- inputs
LevelNames == {"error", "warn", "info", "debug"}
LogLevelValues == LevelNames \cup {Undefined}

\* the ENABLE_TRACING values of the model; unset is [set |-> FALSE]
Unset == [set |-> FALSE, val |-> <<>>]
Val(s) == [set |-> TRUE, val |-> s]
TracingValues == {Val(<<"T", "r", "u", "e">>), Val(<<"f", "a", "l", "s", "e">>)}

\* the .env file at ENV_PATH: absent, or present with or without the key
DotenvFiles == {[exists |-> FALSE, ENABLE_TRACING |-> Unset]}
               \cup {[exists |-> TRUE, ENABLE_TRACING |-> v] : v \in TracingValues \cup {Unset}}
\* the environments a process starts in: the shell sets LOG_LEVEL or leaves it unset,
\* and the test suites export ENABLE_TRACING="true"
StartEnvs == [ENABLE_TRACING : {Unset}, LOG_LEVEL : LogLevelValues]
             \cup [ENABLE_TRACING : {Val(<<"t", "r", "u", "e">>)}, LOG_LEVEL : {"info", "debug"}]
\* the two .env files of a test run: none, and one that switches tracing on
HarnessDotenvFiles == {f \in DotenvFiles : ~f.exists \/ f.ENABLE_TRACING = Val(<<"T", "r", "u", "e">>)}

Roots == {"/app"}
NamespaceArgs == {Undefined, "alt"}
LocalDate == "2025-12-22"

LayerArgs == {<<"I", "n", "f", "r", "a">>}
EventArgs == {<<"p", "i", "n", "g">>}
DataArgs == {EmptyObject} \cup {[level |-> l] : l \in LevelNames}

IoErrors == {"EACCES"}

\* ---------------------------------------------------------------- EnvironmentService
StringOf(v) == IF v.set THEN v.val ELSE <<"u", "n", "d", "e", "f", "i", "n", "e", "d">>

\* dotenv.config: a key of the file is loaded unless process.env already has it
dotenvConfig(e, file) ==
    IF file.exists /\ ~e.ENABLE_TRACING.set /\ file.ENABLE_TRACING.set
    THEN [e EXCEPT !.ENABLE_TRACING = file.ENABLE_TRACING]
    ELSE e

hydrateFlag(e, file) ==
    IF ~file.exists
    THEN FALSE
    ELSE toLowerCase(StringOf(dotenvConfig(e, file).ENABLE_TRACING)) = <<"t", "r", "u", "e">>

isTracingEnabled == enableTracing

\* ---------------------------------------------------------------- JavaScript values
\* the values a caller can pass where the code tests typeof and truthiness
JsUndefined == [type |-> "undefined"]
JsNull == [type |-> "null"]
JsNumber(n) == [type |-> "number", nan |-> FALSE, val |-> n]
JsNaN == [type |-> "number", nan |-> TRUE, val |-> 0]
JsString(s) == [type |-> "string", val |-> s]
JsObject(o) == [type |-> "object", val |-> o]

\* !v
Falsy(v) ==
    \/ v.type \in {"undefined", "null"}
    \/ v.type = "number" /\ (v.nan \/ v.val = 0)
    \/ v.type = "string" /\ v.val = ""

\* the strings that are symbols in the model, and their characters
SymbolStrings == {"", " ", "es", "ES", "spx", " spx ", "SPX", " SPX "}
SymbolChars(s) ==
    CASE s = "" -> <<>>
      [] s = " " -> <<" ">>
      [] s = "es" -> <<"e", "s">>
      [] s = "ES" -> <<"E", "S">>
      [] s = "spx" -> <<"s", "p", "x">>
      [] s = " spx " -> <<" ", "s", "p", "x", " ">>
      [] s = "SPX" -> <<"S", "P", "X">>
      [] s = " SPX " -> <<" ", "S", "P", "X", " ">>
FromChars(c) ==
    CASE c = <<>> -> ""
      [] c = <<" ">> -> " "
      [] c = <<"e", "s">> -> "es"
      [] c = <<"E", "S">> -> "ES"
      [] c = <<"s", "p", "x">> -> "spx"
      [] c = <<" ", "s", "p", "x", " ">> -> " spx "
      [] c = <<"S", "P", "X">> -> "SPX"
      [] c = <<" ", "S", "P", "X", " ">> -> " SPX "

\* String.prototype.trim
RECURSIVE trimStart(_)
trimStart(c) == IF c # <<>> /\ Head(c) = " " THEN trimStart(Tail(c)) ELSE c
RECURSIVE trimEnd(_)
trimEnd(c) == IF c # <<>> /\ c[Len(c)] = " " THEN trimEnd(SubSeq(c, 1, Len(c) - 1)) ELSE c
trimOf == [s \in SymbolStrings |-> FromChars(trimEnd(trimStart(SymbolChars(s))))]
trim(s) == trimOf[s]

\* String.prototype.toUpperCase on a symbol
upperCaseOf == [s \in SymbolStrings |-> FromChars(toUpperCase(SymbolChars(s)))]
symbolToUpperCase(s) == upperCaseOf[s]

\* Date.now(): the model's clock counts from the start of the process
DateNow == StartTime + now

\* ---------------------------------------------------------------- MarketQuote
symbolError == [msg |-> "[Entity] MarketQuote requires a valid string symbol."]
priceError(symbol, price) ==
    [msg |-> "[Entity] MarketQuote has an invalid price", symbol |-> symbol, price |-> price]
timestampError(symbol) ==
    [msg |-> "[Entity] MarketQuote requires a valid numerical timestamp.", symbol |-> symbol]

\* part_001 line 21: typeof price !== 'number' || price < 0; NaN < 0 is false
priceRefused(price) == price.type # "number" \/ (~price.nan /\ price.val < 0)

\* part_001 lines 16-37: new MarketQuote({ symbol, price, timestamp, source })
newMarketQuote(params) ==
    IF Falsy(params.symbol) \/ params.symbol.type # "string"
    THEN Threw(symbolError)
    ELSE IF priceRefused(params.price)
    THEN Threw(priceError(params.symbol, params.price))
    ELSE IF Falsy(params.timestamp) \/ params.timestamp.type # "number"
    THEN Threw(timestampError(params.symbol))
    ELSE Returned([symbol |-> JsString(symbolToUpperCase(params.symbol.val)),
                   price |-> params.price,
                   timestamp |-> params.timestamp,
                   source |-> IF Falsy(params.source) THEN JsString("UNKNOWN")
                                                      ELSE params.source,
                   frozen |-> TRUE])

\* part_001 line 36: an assignment to a field of a frozen object throws in a module
\* and leaves the object as it was
assignField(quote, field, value) ==
    IF quote.frozen
    THEN [object |-> quote, outcome |-> Threw([msg |-> "Cannot assign to read only property",
                                               field |-> field])]
    ELSE [object |-> [quote EXCEPT ![field] = value], outcome |-> Returned(value)]

\* ---------------------------------------------------------------- MockMarketAdapter
\* line 18: failureRate = 0.05 unless the constructor is given one; in percent
failureRateOf(adapter) ==
    IF adapter.args # <<>> /\ "failureRate" \in DOMAIN adapter.args[1]
    THEN adapter.args[1].failureRate
    ELSE DefaultFailureRate

\* line 48: the drift of the price, in cents
DriftValues == {-100, 100}

\* line 47, in cents
basePriceOf(symbol) == IF symbolToUpperCase(symbol) = "SPX" THEN 683450 ELSE 688725

\* lines 29-62: fetchQuote(symbol) when Math.random() < failureRate is fails
mockFetchQuote(dg, symbol, fails, drift) ==
    IF fails
    THEN [diag |-> Append(dg, <<"[MockAdapter] Simulated Upstream Failure for ", symbol,
                                "UPSTREAM_TIMEOUT">>),
          outcome |-> Threw([msg |-> "Upstream Market Provider is currently unreachable."])]
    ELSE [diag |-> dg,
          outcome |-> newMarketQuote([symbol |-> JsString(symbolToUpperCase(symbol)),
                                      price |-> JsNumber(basePriceOf(symbol) + drift),
                                      timestamp |-> JsNumber(DateNow),
                                      source |-> JsString("MockProvider_v2")])]

\* ---------------------------------------------------------------- GetMarketSnapshot
\* lines 17-24: new GetMarketSnapshot(marketDataPort, tracer)
injectionError(port, tr) ==
    [msg |-> "[UseCase] Dependency Injection Failed: ", Port |-> ~Falsy(port),
     Tracer |-> ~Falsy(tr)]

guardsPortOnly(port, tr) == Falsy(port)

\* line 18
dependencyMissing(port, tr) == Falsy(port) \/ Falsy(tr)

newGetMarketSnapshot(port, tr) ==
    IF dependencyMissing(port, tr)
    THEN Threw(injectionError(port, tr))
    ELSE Returned([marketDataPort |-> port, tracer |-> tr])

\* a port that is not the mock adapter: fetchQuote resolves with a quote or rejects
\* with the error of the provider
FetchOutcomes(symbol) ==
    {newMarketQuote([symbol |-> JsString(symbol), price |-> JsNumber(688725),
                     timestamp |-> JsNumber(DateNow), source |-> JsString("Finnhub")]),
     Threw([msg |-> "Request failed with status code 429",
            stack |-> "at FinnhubAdapter.fetchQuote"])}

\* marketDataPort.fetchQuote(symbol) on adapter: what it logs and how it settles
fetchQuoteOutcomes(adapter, symbol, dg) ==
    IF adapter.className = "MockMarketAdapter"
    THEN {mockFetchQuote(dg, symbol, fails, drift) :
              fails \in {b \in BOOLEAN : IF b THEN failureRateOf(adapter) > 0
                                              ELSE failureRateOf(adapter) < 100},
              drift \in DriftValues}
    ELSE {[diag |-> dg, outcome |-> o] : o \in FetchOutcomes(symbol)}

symbolRefusedWhenMissing(symbol) == Falsy(symbol) \/ symbol.type # "string"

\* line 39: !symbol || typeof symbol !== 'string' || symbol.trim() === ''
symbolRefused(symbol) ==
    Falsy(symbol) \/ symbol.type # "string" \/ trim(symbol.val) = ""

validationFailure == [msg |-> "Domain Error: A valid market ticker symbol is required."]

cleanSymbolUntrimmed(symbol) == symbolToUpperCase(symbol.val)

\* line 43: symbol.trim().toUpperCase()
cleanSymbolOf(symbol) == symbolToUpperCase(trim(symbol.val))

\* the value of symbol as JSON.stringify writes it in the meta of the span
numberText(n) == CASE n = 42 -> "42" [] n = 0 -> "0"
plainOf(v) ==
    CASE v.type = "undefined" -> Undefined
      [] v.type = "null" -> Null
      [] v.type = "number" -> numberText(v.val)
      [] v.type = "string" -> v.val

\* line 55: { symbol }; JSON.stringify leaves an undefined property out
executeMeta(symbol) ==
    IF symbol.type = "undefined" THEN EmptyObject ELSE [symbol |-> plainOf(symbol)]

discoveryFailureWithCause(cleanSymbol, error) ==
    [msg |-> "Market discovery failed for ", symbol |-> cleanSymbol,
     hint |-> ". Please check system logs.", cause |-> error]

\* lines 50-53: the catch around fetchQuote
discoveryFailure(cleanSymbol, error) ==
    [msg |-> "Market discovery failed for ", symbol |-> cleanSymbol,
     hint |-> ". Please check system logs."]

\* lines 37-53: the function execute traces, for the outcome fetch of fetchQuote
executeOperation(symbol, fetch) ==
    IF symbolRefused(symbol)
    THEN Threw(validationFailure)
    ELSE IF fetch.status = "threw"
    THEN Threw(discoveryFailure(cleanSymbolOf(symbol), fetch.value))
    ELSE Returned(fetch.value)

\* ---------------------------------------------------------------- Tracer.record
LOG_LEVELS == [error |-> 0, warn |-> 1, info |-> 2, debug |-> 3]

recordSkipsUninitializedOnly(t) == ~t.isInitialized

\* line 86: the two guards of record
recordSkips(t) == ~t.isInitialized \/ ~isTracingEnabled

\* line 90: data.level || 'info'; the empty string is falsy like undefined
requestLevel(data) ==
    IF Has(data, "level") /\ ~IsUndefined(data, "level") /\ data.level # ""
    THEN data.level
    ELSE "info"

\* line 91: process.env.LOG_LEVEL || 'info'
systemLevel == IF env.LOG_LEVEL \in {Undefined, ""} THEN "info" ELSE env.LOG_LEVEL

\* the names every object literal inherits from Object.prototype (two of them)
ObjectPrototypeKeys == {"toString", "constructor"}

\* what a built-in function converts to in a comparison: the UTF-16 code units of
\* "function toString() { [native code] }" and "function Object() { [native code] }"
nativeSource(key) ==
    <<102, 117, 110, 99, 116, 105, 111, 110, 32>>
    \o (IF key = "toString" THEN <<116, 111, 83, 116, 114, 105, 110, 103>>
                            ELSE <<79, 98, 106, 101, 99, 116>>)
    \o <<40, 41, 32, 123, 32, 91, 110, 97, 116, 105, 118, 101, 32, 99, 111, 100, 101, 93, 32, 125>>

levelOfUnknownIsDebug(name) ==
    IF Has(LOG_LEVELS, name) THEN JsNumber(LOG_LEVELS[name]) ELSE JsNumber(3)

\* LOG_LEVELS[name]: an own property, an inherited one, or undefined
levelOf(name) ==
    IF Has(LOG_LEVELS, name) THEN JsNumber(LOG_LEVELS[name])
    ELSE IF name \in ObjectPrototypeKeys THEN [type |-> "function", val |-> nativeSource(name)]
    ELSE JsUndefined

\* a > b on strings: by the first code unit that differs
stringGreater(a, b) ==
    \E i \in 1..Len(a) :
        /\ \A j \in 1..(i - 1) : j <= Len(b) /\ a[j] = b[j]
        /\ i > Len(b) \/ a[i] > b[i]

\* a > b: two numbers by value, two functions by their source text; undefined, and
\* a function against a number, convert to NaN, and every comparison with NaN is false
jsGreater(a, b) ==
    \/ a.type = "number" /\ b.type = "number" /\ a.val > b.val
    \/ a.type = "function" /\ b.type = "function" /\ stringGreater(a.val, b.val)

levelDroppedOrEqual(req, sys) ==
    /\ Has(LOG_LEVELS, req)
    /\ Has(LOG_LEVELS, sys)
    /\ LOG_LEVELS[req] >= LOG_LEVELS[sys]

\* line 94: LOG_LEVELS[requestLevel] > LOG_LEVELS[systemLevel]
levelDropped(req, sys) == jsGreater(levelOf(req), levelOf(sys))

toISOString(t) == <<"ISO", t>>

\* lines 96-102
entryOf(t, layer, event, data) ==
    [ts |-> toISOString(now),
     sid |-> t.sessionID,
     lyr |-> toUpperCase(layer),
     evt |-> toUpperCase(event),
     dat |-> data]

\* JSON.stringify(entry): a key of dat whose value is undefined is left out
JSONstringify(entry) ==
    [entry EXCEPT !.dat = [k \in {j \in DOMAIN entry.dat : ~IsUndefined(entry.dat, j)}
                             |-> entry.dat[k]]]

appendFileInTwoWrites(files, path, line) ==
    [files EXCEPT ![path] = @ \o <<[k \in {"ts", "sid"} |-> line[k]],
                                    [k \in {"lyr", "evt", "dat"} |-> line[k]]>>]

\* line 106: one appendFile call with the serialized entry and its '\n'; an element
\* of a file is what one call appended
appendFile(files, path, line) == [files EXCEPT ![path] = Append(@, line)]

recordCatchRethrows(files, dg, msg) ==
    [fs |-> files, diag |-> Append(dg, <<"[Tracer Error]: ", msg>>),
     outcome |-> Threw(msg), attempted |-> TRUE]

recordCatchUnlogged(files, dg, msg) ==
    [fs |-> files, diag |-> dg, outcome |-> Returned(Undefined), attempted |-> TRUE]

\* lines 107-111: the catch of record
recordCatch(files, dg, msg) ==
    [fs |-> files, diag |-> Append(dg, <<"[Tracer Error]: ", msg>>),
     outcome |-> Returned(Undefined), attempted |-> TRUE]

\* record(layer, event, data) on tracer t, files and diagnostic log dg; io is the
\* outcome of appendFile, "ok" or the message of its error, and attempted tells
\* whether record reached appendFile
record(t, files, dg, layer, event, data, io) ==
    IF recordSkips(t)
    THEN [fs |-> files, diag |-> dg, outcome |-> Returned(Undefined), attempted |-> FALSE]
    ELSE IF levelDropped(requestLevel(data), systemLevel)
    THEN [fs |-> files, diag |-> dg, outcome |-> Returned(Undefined), attempted |-> FALSE]
    ELSE IF io = "ok"
    THEN [fs |-> appendFile(files, t.traceFile, JSONstringify(entryOf(t, layer, event, data))),
          diag |-> dg, outcome |-> Returned(Undefined), attempted |-> TRUE]
    ELSE recordCatch(files, dg, io)

\* ---------------------------------------------------------------- Tracer.initialize
\* line 44: namespace = 'plnexus'
namespaceOf(ns) == IF ns = Undefined THEN "plnexus" ELSE ns

\* lines 52, 60-61
traceDirOf(root) == <<root, "logs", "traces">>
traceFileOf(root, ns) == Append(traceDirOf(root), ns \o "-" \o LocalDate \o ".trace.log")

Paths == {traceFileOf(r, namespaceOf(n)) : r \in Roots, n \in NamespaceArgs}

\* line 50: Math.random().toString(36).substring(2, 9).toUpperCase(), a token that
\* no earlier draw of the process produced
sessionIdOf(draw) == <<"SID", draw>>

initializeNeverReturnsEarly(t) == FALSE

\* line 45
initializeReturnsEarly(t) == t.isInitialized

initializeBeginsReady(t, root, draw) ==
    [t EXCEPT !.projectRoot = root, !.sessionID = sessionIdOf(draw), !.isInitialized = TRUE]

\* lines 48-50: the fields initialize sets before mkdir
initializeBegins(t, root, draw) ==
    [t EXCEPT !.projectRoot = root, !.sessionID = sessionIdOf(draw)]

\* lines 65-69
readyData(t) == [sid |-> t.sessionID, env |-> "development", node |-> "v20"]

STR_SYSTEM == <<"S", "Y", "S", "T", "E", "M">>
STR_TRACER_READY == <<"T", "R", "A", "C", "E", "R", "_", "R", "E", "A", "D", "Y">>

\* lines 71-74: the catch of initialize
initializeCatch(dg, msg) == Append(dg, <<"[Tracer] Initialization Failure: ", msg>>)

TotalLines(files) == LET n[S \in SUBSET Paths] ==
                             IF S = {} THEN 0
                             ELSE LET p == CHOOSE q \in S : TRUE
                                  IN Len(files[p]) + n[S \ {p}]
                     IN n[Paths]

Idle == stack = <<>> /\ pendingInit = <<>>

\* the outcomes mkdir and appendFile can have: at most MaxFaults of them fail
IoOutcomes == {"ok"} \cup (IF faults < MaxFaults THEN IoErrors ELSE {})

\* initialize(projectRoot, namespace) up to its first await (mkdir)
initializeCall(root, ns) ==
    IF initializeReturnsEarly(tracer)
    THEN /\ ret' = [call |-> "initialize", early |-> TRUE, outcome |-> Returned(Undefined),
                    before |-> fs, after |-> fs, tracerBefore |-> tracer]
         /\ UNCHANGED <<tracer, fs, diag, pendingInit, seed>>
    ELSE /\ tracer' = initializeBegins(tracer, root, seed + 1)
         /\ seed' = seed + 1
         /\ pendingInit' = Append(pendingInit,
                                  [root |-> root, namespace |-> namespaceOf(ns),
                                   before |-> fs, tracerBefore |-> tracer])
         /\ UNCHANGED <<fs, diag, ret>>

\* the calls still suspended once the i-th of them has resumed
withoutCall(calls, i) == SubSeq(calls, 1, i - 1) \o SubSeq(calls, i + 1, Len(calls))

\* lines 55-74: the rest of the i-th suspended initialize call, once its mkdir has
\* settled with mk ("ok" or an error message); this.sessionID and the other fields
\* are read from the tracer as it is at that moment
initializeResumeAt(i, mk, io) ==
    /\ i \in DOMAIN pendingInit
    /\ LET call == pendingInit[i]
       IN IF mk = "ok"
          THEN LET t == [tracer EXCEPT !.traceFile = traceFileOf(call.root, call.namespace),
                                       !.isInitialized = TRUE]
                   r == record(t, fs, diag, STR_SYSTEM, STR_TRACER_READY, readyData(t), io)
               IN /\ tracer' = t
                  /\ fs' = r.fs
                  /\ diag' = r.diag
                  /\ io # "ok" => r.attempted
                  /\ ret' = [call |-> "initialize", early |-> FALSE, mkdir |-> mk, io |-> io,
                             outcome |-> r.outcome, before |-> call.before, after |-> r.fs,
                             tracerBefore |-> call.tracerBefore]
          ELSE /\ diag' = initializeCatch(diag, mk)
               /\ io = "ok"
               /\ ret' = [call |-> "initialize", early |-> FALSE, mkdir |-> mk, io |-> io,
                          outcome |-> Returned(Undefined), before |-> call.before, after |-> fs,
                          tracerBefore |-> call.tracerBefore]
               /\ UNCHANGED <<tracer, fs>>
    /\ pendingInit' = withoutCall(pendingInit, i)

\* the rest of an initialize call that was awaited: no other call is suspended
initializeResume(mk, io) == initializeResumeAt(1, mk, io)

\* ---------------------------------------------------------------- Tracer.traceSpan
STR_START == <<"_", "S", "T", "A", "R", "T">>
STR_COMPLETE == <<"_", "C", "O", "M", "P", "L", "E", "T", "E">>
STR_FAILED == <<"_", "F", "A", "I", "L", "E", "D">>

NoOutcome == [status |-> "none", value |-> Undefined]

\* fn(): what the wrapped operation does when it is called directly.  The operation
\* of kind "bootstrap" is the function main.js passes at lines 117-141: it rejects
\* with what loadAdapter or execute threw, child, and otherwise returns nothing.
\* The operation of kind "execute" is the function GetMarketSnapshot.execute
\* traces, for the symbol op.value; child is how fetchQuote settled.
runOperation(op, child) ==
    CASE op.kind = "value" -> Returned(op.value)
      [] op.kind = "error" -> Threw(op.value)
      [] op.kind = "bootstrap" -> IF child.status = "threw" THEN child ELSE Returned(Undefined)
      [] op.kind = "execute" -> executeOperation(op.value, child)

\* lines 129-131: the kill switch of traceSpan
traceSpanBypasses == ~isTracingEnabled

durationReversed(startTime) == startTime - now

\* lines 138, 146
durationOf(startTime) == now - startTime

\* lines 140-143
completeData(meta, duration) == Spread(meta, [durationMs |-> duration])

failedDataWithoutMessage(meta, duration, message) == Spread(meta, [durationMs |-> duration])

\* lines 147-151
failedData(meta, duration, message) == Spread(meta, [durationMs |-> duration, error |-> message])

bypassDropsOutcome(opOut) == Returned(Undefined)

\* line 130: return await fn()
bypassOutcome(opOut) == opOut

\* line 152: what the catch of traceSpan raises for the caught error
rethrow(error) == Threw(error)

\* line 144: what traceSpan returns for the result of fn
returnResult(result) == Returned(result)

\* lines 145-153: the catch of traceSpan, for the caught error message
traceSpanCatch(f, files, dg, message, io) ==
    LET r == record(tracer, files, dg, f.layer, f.label \o STR_FAILED,
                    failedData(f.meta, durationOf(f.startTime), message), io)
    IN [fs |-> r.fs, diag |-> r.diag, attempted |-> r.attempted,
        outcome |-> IF r.outcome.status = "threw" THEN r.outcome ELSE rethrow(message)]

traceSpanAfterUnrecorded(f, opOut, io) ==
    [fs |-> fs, diag |-> diag, attempted |-> FALSE,
     outcome |-> IF ~f.traced THEN bypassOutcome(opOut)
                 ELSE IF opOut.status = "returned" THEN returnResult(opOut.value)
                 ELSE rethrow(opOut.value)]

traceSpanAfterAlwaysCompletes(f, opOut, io) ==
    IF ~f.traced
    THEN [fs |-> fs, diag |-> diag, attempted |-> FALSE, outcome |-> bypassOutcome(opOut)]
    ELSE LET r == record(tracer, fs, diag, f.layer, f.label \o STR_COMPLETE,
                         completeData(f.meta, durationOf(f.startTime)), io)
         IN [fs |-> r.fs, diag |-> r.diag, attempted |-> r.attempted,
             outcome |-> IF opOut.status = "returned" THEN returnResult(opOut.value)
                                                      ELSE rethrow(opOut.value)]

\* lines 136-153: traceSpan from the moment fn() has settled with opOut
traceSpanAfter(f, opOut, io) ==
    IF ~f.traced
    THEN [fs |-> fs, diag |-> diag, attempted |-> FALSE, outcome |-> bypassOutcome(opOut)]
    ELSE IF opOut.status = "returned"
    THEN LET r == record(tracer, fs, diag, f.layer, f.label \o STR_COMPLETE,
                         completeData(f.meta, durationOf(f.startTime)), io)
         IN IF r.outcome.status = "threw"
            THEN traceSpanCatch(f, r.fs, r.diag, r.outcome.value, io)
            ELSE [fs |-> r.fs, diag |-> r.diag, attempted |-> r.attempted,
                  outcome |-> returnResult(opOut.value)]
    ELSE traceSpanCatch(f, fs, diag, opOut.value, io)

\* the outcome of a nested call reaches the operation that issued the call
deliver(frames, outcome) ==
    IF frames = <<>>
    THEN frames
    ELSE [frames EXCEPT ![Len(frames)].child = outcome]

returnOf(f, opOut, invoked, outcome, ioEnd, files) ==
    [call |-> "traceSpan", layer |-> f.layer, label |-> f.label, meta |-> f.meta, op |-> f.op,
     traced |-> f.traced, startTime |-> f.startTime, endTime |-> now, ioStart |-> f.ioStart,
     ioEnd |-> ioEnd, opOutcome |-> opOut, invoked |-> invoked, outcome |-> outcome,
     before |-> f.before, after |-> files, tracerBefore |-> tracer, sys |-> systemLevel,
     enabled |-> f.enabled, depth |-> f.depth]

\* lines 125-137: traceSpan(layer, label, fn, meta) up to the moment fn() is running
traceSpanCall(layer, label, op, meta, io) ==
    LET f == [layer |-> layer, label |-> label, meta |-> meta, op |-> op,
              traced |-> ~traceSpanBypasses, enabled |-> isTracingEnabled,
              startTime |-> now, ioStart |-> io,
              before |-> fs, child |-> NoOutcome, depth |-> Len(stack) + 1,
              ticked |-> FALSE]
    IN IF traceSpanBypasses
       THEN /\ io = "ok"
            /\ stack' = Append(stack, f)
            /\ UNCHANGED <<fs, diag, ret>>
       ELSE LET r == record(tracer, fs, diag, layer, label \o STR_START, meta, io)
            IN /\ io # "ok" => r.attempted
               /\ fs' = r.fs
               /\ diag' = r.diag
               /\ IF r.outcome.status = "threw"
                  THEN /\ stack' = deliver(stack, r.outcome)
                       /\ ret' = returnOf(f, NoOutcome, 0, r.outcome, io, r.fs)
                  ELSE /\ stack' = Append(stack, f)
                       /\ UNCHANGED ret

\* fn() settles and traceSpan returns or throws
traceSpanSettle(io) ==
    LET f == stack[Len(stack)]
        opOut == runOperation(f.op, f.child)
        r == traceSpanAfter(f, opOut, io)
    IN /\ io # "ok" => r.attempted
       /\ fs' = r.fs
       /\ diag' = r.diag
       /\ stack' = deliver(SubSeq(stack, 1, Len(stack) - 1), r.outcome)
       /\ ret' = returnOf(f, opOut, 1, r.outcome, io, r.fs)

\* ---------------------------------------------------------------- EnvironmentService.getProviderConfig
Providers == {"Finnhub"}

\* what import(`./validators/${provider}Config.js`) and the validator it exports do
ValidatorKinds == {"noModule", "noExport", "noValidate", "throws", "rejects", "returns", "resolves"}

validatorPathOf(provider) == <<".", "validators", provider \o "Config.js">>
configOf(provider) == [provider |-> provider, frozen |-> TRUE]

\* the error each failing step raises
importError(path) == [msg |-> "Cannot find module", path |-> path]
contractError(provider) ==
    [msg |-> "Validator does not implement the .validate() contract.", provider |-> provider]
validationError(provider) == [msg |-> "Missing credential", provider |-> provider]

\* lines 87-94: the catch of getProviderConfig logs and rethrows
configCatch(dg, provider, err) ==
    [diag |-> Append(dg, <<"[Environment] Configuration lifecycle failure for provider: ",
                           provider, err,
                           "Check if the validator file exists in infrastructure/config/validators/">>),
     outcome |-> Threw(err)]

\* lines 70-95.  The promise validate() returns is returned without await (line 85),
\* so its rejection settles the call outside the try block
getProviderConfig(dg, provider, v) ==
    CASE v = "noModule" -> configCatch(dg, provider, importError(validatorPathOf(provider)))
      [] v \in {"noExport", "noValidate"} -> configCatch(dg, provider, contractError(provider))
      [] v = "throws" -> configCatch(dg, provider, validationError(provider))
      [] v = "rejects" -> [diag |-> dg, outcome |-> Threw(validationError(provider))]
      [] v \in {"returns", "resolves"} -> [diag |-> dg, outcome |-> Returned(configOf(provider))]

\* ---------------------------------------------------------------- AdapterFactory
\* main.js line 27
PROJECT_ROOT == "/app"

\* an entry of the manifest, under the key mode
FinnhubEntry(mode) ==
    [mode |-> mode, path |-> <<"infrastructure", "adapters", "api", "FinnhubAdapter.js">>,
     className |-> "FinnhubAdapter", requiresConfig |-> TRUE, configKey |-> "Finnhub"]
MockEntry(mode) ==
    [mode |-> mode, path |-> <<"/", "opt", "adapters", "MockMarketAdapter.js">>,
     className |-> "MockMarketAdapter", requiresConfig |-> FALSE, configKey |-> Undefined]

\* the manifest file: absent, unreadable, not JSON, JSON without "adapters", or
\* JSON whose "adapters" holds the entries in the order the file declares them
ManifestFiles ==
    {[state |-> st, adapters |-> <<>>] : st \in {"missing", "unreadable", "unparseable", "empty"}}
    \cup {[state |-> "parsed", adapters |-> a] :
             a \in {<<FinnhubEntry("1"), MockEntry("2")>>,
                    <<MockEntry("2"), FinnhubEntry("1")>>,
                    <<MockEntry("mock"), FinnhubEntry("1")>>}}
StandardManifest == [state |-> "parsed", adapters |-> <<FinnhubEntry("1"), MockEntry("2")>>]

\* the mode argument of loadAdapter
ModeArgs == {"1", "2", "9", "toString"}

\* what the module at the entry's path holds
ModuleKinds == {"ok", "noModule", "noExport", "constructorThrows"}

\* lines 103-111
manifestPathOf(root) == <<root, "config", "adapters.manifest.json">>

\* no manifest has been read by an earlier call
NoManifest == <<>>

readManifestAlwaysMalformed(file, root) ==
    CASE file.state \in {"missing", "unreadable"} ->
             Threw([msg |-> "Malformed manifest: ", detail |-> "EACCES"])
      [] file.state = "unparseable" ->
             Threw([msg |-> "Malformed manifest: ", detail |-> "Unexpected token"])
      [] file.state = "empty" -> Returned([hasAdapters |-> FALSE, adapters |-> <<>>])
      [] file.state = "parsed" -> Returned([hasAdapters |-> TRUE, adapters |-> file.adapters])

\* lines 173-183: readFile and JSON.parse
readManifest(file, root) ==
    CASE file.state = "missing" ->
             Threw([msg |-> "Manifest missing at: ", path |-> manifestPathOf(root)])
      [] file.state = "unreadable" -> Threw([msg |-> "Malformed manifest: ", detail |-> "EACCES"])
      [] file.state = "unparseable" ->
             Threw([msg |-> "Malformed manifest: ", detail |-> "Unexpected token"])
      [] file.state = "empty" -> Returned([hasAdapters |-> FALSE, adapters |-> <<>>])
      [] file.state = "parsed" -> Returned([hasAdapters |-> TRUE, adapters |-> file.adapters])

getManifestCached(file, root, prior) ==
    IF prior # NoManifest THEN prior[1] ELSE readManifest(file, root)

\* line 123: await this._getManifest(); prior is what the previous call on this
\* factory read, of which the factory keeps nothing
getManifest(file, root, prior) == readManifest(file, root)

\* the order of Object.keys: the keys that are array indices in ascending order, then
\* the other keys in the order of their creation
IndexKeys == [k \in {"1", "2", "9"} |-> CASE k = "1" -> 1 [] k = "2" -> 2 [] k = "9" -> 9]
IsIndexKey(k) == k \in DOMAIN IndexKeys
IsNameKey(k) == ~IsIndexKey(k)
IndexBefore(a, b) == IndexKeys[a] < IndexKeys[b]
DeclaredKeys(adapters) == [i \in DOMAIN adapters |-> adapters[i].mode]
ObjectKeys(adapters) ==
    SortSeq(SelectSeq(DeclaredKeys(adapters), IsIndexKey), IndexBefore)
        \o SelectSeq(DeclaredKeys(adapters), IsNameKey)

\* line 126: manifest.adapters[mode]; a name that Object.prototype defines is found
\* on every object
adapterDefOf(adapters, mode) ==
    IF \E i \in DOMAIN adapters : adapters[i].mode = mode
    THEN [kind |-> "entry", entry |-> adapters[CHOOSE i \in DOMAIN adapters : adapters[i].mode = mode]]
    ELSE IF mode \in ObjectPrototypeKeys
    THEN [kind |-> "inherited", entry |-> MockEntry(mode)]
    ELSE [kind |-> "undefined", entry |-> MockEntry(mode)]

\* lines 127-130
unknownModeError(mode, adapters) ==
    [msg |-> "Execution mode is not defined in manifest. Available: ", mode |-> mode,
     available |-> ObjectKeys(adapters)]

\* lines 134-135
isAbsolute(path) == path # <<>> /\ Head(path) = "/"
modulePathOf(root, rawPath) == IF isAbsolute(rawPath) THEN rawPath ELSE <<root>> \o rawPath

\* lines 144-146
exportError(entry) ==
    [msg |-> "Export not found in module at", className |-> entry.className, path |-> entry.path]

\* the TypeError of reading a property of undefined (line 126) and of
\* isAbsolute(undefined) (line 135), and what a failing constructor throws
undefinedError(mode) == [msg |-> "Cannot read properties of undefined", reading |-> mode]
pathTypeError == [msg |-> "The path argument must be of type string. Received undefined"]
constructorError(entry) == [msg |-> "constructor failed", className |-> entry.className]

\* lines 152, 156: new AdapterClass(config) and new AdapterClass()
construct(entry, args) == [className |-> entry.className, args |-> args]

loadStep(dg, outcome, configCalls, constructed, m) ==
    [diag |-> dg, outcome |-> outcome, configCalls |-> configCalls,
     constructed |-> constructed, manifest |-> m]

injectNothing(dg, entry, mod, v, m) ==
    IF mod = "constructorThrows"
    THEN loadStep(dg, Threw(constructorError(entry)), <<>>, <<>>, m)
    ELSE loadStep(dg, Returned(construct(entry, <<>>)), <<>>, <<construct(entry, <<>>)>>, m)

\* lines 148-157: configuration is injected when the entry asks for it
injectAndConstruct(dg, entry, mod, v, m) ==
    IF entry.requiresConfig
    THEN LET c == getProviderConfig(dg, entry.configKey, v)
         IN IF c.outcome.status = "threw"
            THEN loadStep(c.diag, c.outcome, <<entry.configKey>>, <<>>, m)
            ELSE IF mod = "constructorThrows"
            THEN loadStep(c.diag, Threw(constructorError(entry)), <<entry.configKey>>, <<>>, m)
            ELSE loadStep(c.diag, Returned(construct(entry, <<c.outcome.value>>)),
                          <<entry.configKey>>, <<construct(entry, <<c.outcome.value>>)>>, m)
    ELSE IF mod = "constructorThrows"
    THEN loadStep(dg, Threw(constructorError(entry)), <<>>, <<>>, m)
    ELSE loadStep(dg, Returned(construct(entry, <<>>)), <<>>, <<construct(entry, <<>>)>>, m)

\* lines 121-158: the try block of loadAdapter
loadAdapterTry(dg, root, mode, file, mod, v, prior) ==
    LET m == getManifest(file, root, prior)
    IN IF m.status = "threw"
       THEN loadStep(dg, m, <<>>, <<>>, m)
       ELSE IF ~m.value.hasAdapters
       THEN loadStep(dg, Threw(undefinedError(mode)), <<>>, <<>>, m)
       ELSE LET def == adapterDefOf(m.value.adapters, mode)
            IN IF def.kind = "undefined"
               THEN loadStep(dg, Threw(unknownModeError(mode, m.value.adapters)), <<>>, <<>>, m)
               ELSE IF def.kind = "inherited"
               THEN loadStep(dg, Threw(pathTypeError), <<>>, <<>>, m)
               ELSE IF mod = "noModule"
               THEN loadStep(dg, Threw(importError(modulePathOf(root, def.entry.path))),
                             <<>>, <<>>, m)
               ELSE IF mod = "noExport"
               THEN loadStep(dg, Threw(exportError(def.entry)), <<>>, <<>>, m)
               ELSE injectAndConstruct(dg, def.entry, mod, v, m)

\* line 162
loadFailure(mode, err) ==
    [msg |-> "[AdapterFactory] Load failure for mode ", mode |-> mode, cause |-> err]

loadAdapterCatchUnwrapped(t, mode) ==
    [t EXCEPT !.diag = Append(t.diag, <<loadFailure(mode, t.outcome.value)>>)]

\* lines 160-165: the catch of loadAdapter logs the wrapped failure and throws it
loadAdapterCatch(t, mode) ==
    [t EXCEPT !.diag = Append(t.diag, <<loadFailure(mode, t.outcome.value)>>),
              !.outcome = Threw(loadFailure(mode, t.outcome.value))]

\* lines 120-166
loadAdapter(dg, root, mode, file, mod, v, prior) ==
    LET t == loadAdapterTry(dg, root, mode, file, mod, v, prior)
    IN IF t.outcome.status = "threw" THEN loadAdapterCatch(t, mode) ELSE t

\* ---------------------------------------------------------------- the callers
Fault(io) == IF io = "ok" THEN 0 ELSE 1

Initialize ==
    /\ Idle
    /\ \E root \in Roots, ns \in NamespaceArgs : initializeCall(root, ns)
    /\ UNCHANGED <<enableTracing, env, now, stack, ncalls, faults, main, manifestFile>>

InitializeMkdirSettles ==
    /\ \E mk \in IoOutcomes, io \in IoOutcomes :
           /\ initializeResume(mk, io)
           /\ faults' = faults + Fault(mk) + Fault(io)
    /\ UNCHANGED <<enableTracing, env, now, stack, seed, ncalls, main, manifestFile>>

Hydrate ==
    /\ Idle
    /\ \E file \in HarnessDotenvFiles :
           /\ env' = dotenvConfig(env, file)
           /\ enableTracing' = hydrateFlag(env, file)
    /\ UNCHANGED <<tracer, fs, diag, now, pendingInit, stack, ret, seed, ncalls, faults, main,
                   manifestFile>>

\* a call of record(layer, event, data) whose appendFile settles with io
recordCall(layer, event, data, io) ==
    LET r == record(tracer, fs, diag, layer, event, data, io)
    IN /\ io # "ok" => r.attempted
       /\ fs' = r.fs
       /\ diag' = r.diag
       /\ faults' = faults + Fault(io)
       /\ ret' = [call |-> "record", layer |-> layer, event |-> event, data |-> data,
                  io |-> io, outcome |-> r.outcome, before |-> fs, after |-> r.fs,
                  tracerBefore |-> tracer, enabled |-> isTracingEnabled,
                  sys |-> systemLevel, at |-> now, diagBefore |-> diag,
                  diagAfter |-> r.diag]

Record ==
    /\ Idle
    /\ ncalls < MaxCalls
    /\ \E layer \in LayerArgs, event \in EventArgs, data \in DataArgs, io \in IoOutcomes :
           recordCall(layer, event, data, io)
    /\ ncalls' = ncalls + 1
    /\ UNCHANGED <<tracer, enableTracing, env, now, pendingInit, stack, seed, main, manifestFile>>

\* the span of a caller
OuterSpans == {[layer |-> <<"c", "l", "i">>, label |-> <<"o", "p">>]}
MetaArgs == {EmptyObject, [level |-> "debug"], [mode |-> "2", symbol |-> Undefined]}
LeafOperations == {[kind |-> "value", value |-> "quote"],
                   [kind |-> "error", value |-> "Upstream unreachable"]}

TraceSpan ==
    /\ Idle
    /\ ncalls < MaxCalls
    /\ \E span \in OuterSpans, op \in LeafOperations, meta \in MetaArgs, io \in IoOutcomes :
           /\ traceSpanCall(span.layer, span.label, op, meta, io)
           /\ faults' = faults + Fault(io)
    /\ ncalls' = ncalls + 1
    /\ UNCHANGED <<tracer, enableTracing, env, now, pendingInit, seed, main, manifestFile>>

OperationSettles ==
    /\ stack # <<>>
    /\ \E io \in IoOutcomes :
           /\ traceSpanSettle(io)
           /\ faults' = faults + Fault(io)
    /\ UNCHANGED <<tracer, enableTracing, env, now, pendingInit, seed, ncalls, main,
                   manifestFile>>

\* time passes while an operation runs; the clock is read in milliseconds, and the
\* model lets it advance once during each operation
Tick ==
    /\ stack # <<>>
    /\ ~stack[Len(stack)].ticked
    /\ now' = now + 1
    /\ stack' = [stack EXCEPT ![Len(stack)].ticked = TRUE]
    /\ UNCHANGED <<tracer, enableTracing, env, fs, diag, pendingInit, ret, seed, ncalls, faults,
                   main, manifestFile>>

\* main.js is not the entry point: the tracer is driven by a script
NotRunning == [pc |-> "none"]

Init ==
    /\ tracer = [projectRoot |-> Null, traceFile |-> <<Null>>, isInitialized |-> FALSE,
                 sessionID |-> Null]
    /\ enableTracing = FALSE
    /\ env \in StartEnvs
    /\ fs = [p \in Paths |-> <<>>]
    /\ diag = <<>>
    /\ now = 0
    /\ pendingInit = <<>>
    /\ stack = <<>>
    /\ ret = [call |-> "none"]
    /\ seed = 0
    /\ ncalls = 0
    /\ faults = 0
    /\ main = NotRunning
    /\ manifestFile = StandardManifest

Next ==
    \/ Initialize
    \/ InitializeMkdirSettles
    \/ Hydrate
    \/ Record
    \/ TraceSpan
    \/ OperationSettles
    \/ Tick

Spec == Init /\ [][Next]_vars

\* ---------------------------------------------------------------- the callers of the infrastructure
\* process.env as a caller of hydrate finds it
ServiceEnvs ==
    [ENABLE_TRACING : {Unset, Val(<<"t", "r", "u", "e">>), Val(<<"T", "R", "U", "E">>),
                       Val(<<"f", "a", "l", "s", "e">>), Val(<<"1">>)},
     LOG_LEVEL : {Undefined}]

\* EnvironmentService.hydrate()
ServiceHydrate ==
    /\ \E file \in DotenvFiles :
           /\ env' = dotenvConfig(env, file)
           /\ enableTracing' = hydrateFlag(env, file)
           /\ ret' = [call |-> "hydrate", file |-> file, envBefore |-> env,
                      flag |-> hydrateFlag(env, file)]
    /\ UNCHANGED <<tracer, fs, diag, now, pendingInit, stack, seed, ncalls, faults, main,
                   manifestFile>>

\* EnvironmentService.getProviderConfig(provider)
GetProviderConfig ==
    /\ ncalls < MaxLoads
    /\ \E provider \in Providers, v \in ValidatorKinds :
           LET c == getProviderConfig(diag, provider, v)
           IN /\ diag' = c.diag
              /\ ret' = [call |-> "getProviderConfig", provider |-> provider, validator |-> v,
                         outcome |-> c.outcome, diagBefore |-> diag, diagAfter |-> c.diag]
    /\ ncalls' = ncalls + 1
    /\ UNCHANGED <<tracer, enableTracing, env, fs, now, pendingInit, stack, seed, faults, main,
                   manifestFile>>

\* the manifest the previous call of loadAdapter read, when that call was the last
\* call made
priorManifest == IF ret.call = "loadAdapter" THEN <<ret.manifest>> ELSE NoManifest

\* the validators a caller of loadAdapter meets
FactoryValidatorKinds == {"returns", "rejects"}

\* new AdapterFactory(root).loadAdapter(mode, EnvironmentService) on the one factory
\* of the process
LoadAdapter ==
    /\ ncalls < MaxLoads
    /\ \E mode \in ModeArgs, mod \in ModuleKinds, v \in FactoryValidatorKinds :
           LET a == loadAdapter(diag, PROJECT_ROOT, mode, manifestFile, mod, v, priorManifest)
           IN /\ v # "returns" => a.configCalls # <<>>
              /\ mod # "ok" => (a.manifest.status = "returned" /\ a.outcome.status = "threw")
              /\ diag' = a.diag
              /\ ret' = [call |-> "loadAdapter", mode |-> mode, file |-> manifestFile,
                         module |-> mod, validator |-> v, outcome |-> a.outcome,
                         configCalls |-> a.configCalls, constructed |-> a.constructed,
                         manifest |-> a.manifest, prior |-> priorManifest,
                         diagBefore |-> diag, diagAfter |-> a.diag]
    /\ ncalls' = ncalls + 1
    /\ UNCHANGED <<tracer, enableTracing, env, fs, now, pendingInit, stack, seed, faults, main,
                   manifestFile>>

\* the manifest file is rewritten, removed or damaged between two calls
ManifestChanges ==
    /\ \E file \in ManifestFiles :
           /\ file # manifestFile
           /\ manifestFile' = file
    /\ UNCHANGED <<tracer, enableTracing, env, fs, diag, now, pendingInit, stack, ret, seed,
                   ncalls, faults, main>>

InitEnvironment ==
    /\ tracer = [projectRoot |-> Null, traceFile |-> <<Null>>, isInitialized |-> FALSE,
                 sessionID |-> Null]
    /\ enableTracing = FALSE
    /\ env \in ServiceEnvs
    /\ fs = [p \in Paths |-> <<>>]
    /\ diag = <<>>
    /\ now = 0
    /\ pendingInit = <<>>
    /\ stack = <<>>
    /\ ret = [call |-> "none"]
    /\ seed = 0
    /\ ncalls = 0
    /\ faults = 0
    /\ main = NotRunning
    /\ manifestFile = StandardManifest

NextEnvironment ==
    \/ ServiceHydrate
    \/ GetProviderConfig

SpecEnvironment == InitEnvironment /\ [][NextEnvironment]_vars

InitFactory ==
    /\ tracer = [projectRoot |-> Null, traceFile |-> <<Null>>, isInitialized |-> FALSE,
                 sessionID |-> Null]
    /\ enableTracing = FALSE
    /\ env = [ENABLE_TRACING |-> Unset, LOG_LEVEL |-> Undefined]
    /\ fs = [p \in Paths |-> <<>>]
    /\ diag = <<>>
    /\ now = 0
    /\ pendingInit = <<>>
    /\ stack = <<>>
    /\ ret = [call |-> "none"]
    /\ seed = 0
    /\ ncalls = 0
    /\ faults = 0
    /\ main = NotRunning
    /\ manifestFile \in ManifestFiles

NextFactory ==
    \/ LoadAdapter
    \/ ManifestChanges

SpecFactory == InitFactory /\ [][NextFactory]_vars

\* ---------------------------------------------------------------- main.js

\* process.argv.slice(2)
ArgvValues == {<<>>, <<"--mock">>, <<"--mock", "spx">>, <<"--live", "es">>, <<"es">>,
               <<"--help">>, <<"-h", "--mock">>}
Includes(args, a) == \E i \in DOMAIN args : args[i] = a

\* arg.startsWith('--') || arg.startsWith('-'), on the arguments of ArgvValues
IsFlag(a) == a \in {"--mock", "--live", "--help", "-h"}

\* line 94
modeOf(args) ==
    IF Includes(args, "--mock") THEN "2" ELSE IF Includes(args, "--live") THEN "1" ELSE Null

\* line 95: args.find(...)
symbolOf(args) ==
    IF \E i \in DOMAIN args : ~IsFlag(args[i])
    THEN args[CHOOSE i \in DOMAIN args :
                  ~IsFlag(args[i]) /\ \A j \in 1..(i - 1) : IsFlag(args[j])]
    ELSE Undefined

\* line 130: context.symbol?.toUpperCase() || 'SPX'
sanitizedSymbolOf(symbol) == IF symbol = Undefined THEN "SPX" ELSE symbolToUpperCase(symbol)

\* the .env file at the project root, which line 30 has loaded into process.env
\* before bootstrap() runs
MainDotenvFiles ==
    {[exists |-> FALSE, ENABLE_TRACING |-> Unset],
     [exists |-> TRUE, ENABLE_TRACING |-> Val(<<"t", "r", "u", "e">>)],
     [exists |-> TRUE, ENABLE_TRACING |-> Unset]}
ShellEnvs == [ENABLE_TRACING : {Unset, Val(<<"t", "r", "u", "e">>)}, LOG_LEVEL : {Undefined, "debug"}]

\* the manifest as a run of main.js finds it
MainManifestFiles == {f \in ManifestFiles : f.state = "missing"} \cup {StandardManifest}

\* the module and the validator as a run of main.js finds them
MainModuleKinds == {"ok"}
MainValidatorKinds == {"returns", "rejects"}

\* MenuSystem.getInitialSelection: the selection, or its wrapped failure
MenuOperations ==
    {[kind |-> "value", value |-> [mode |-> "2", symbol |-> "SPX"]],
     [kind |-> "value", value |-> [mode |-> "1", symbol |-> "ES"]],
     [kind |-> "error", value |-> [msg |-> "readline was closed"]]}
\* MenuSystem.js lines 40-43: the catch of getInitialSelection
menuOperation(m) ==
    IF m.kind = "error"
    THEN [kind |-> "error", value |-> [msg |-> "Menu Interaction Failed: ", cause |-> m.value]]
    ELSE m

STR_CLI == <<"C", "L", "I">>
STR_USER_INTERACTION == <<"U", "S", "E", "R", "_", "I", "N", "T", "E", "R", "A", "C", "T", "I", "O", "N">>
STR_BOOTSTRAP_SEQUENCE ==
    <<"B", "O", "O", "T", "S", "T", "R", "A", "P", "_", "S", "E", "Q", "U", "E", "N", "C", "E">>
STR_DOMAIN == <<"D", "O", "M", "A", "I", "N">>
STR_GET_MARKET_SNAPSHOT ==
    <<"G", "E", "T", "_", "M", "A", "R", "K", "E", "T", "_", "S", "N", "A", "P", "S", "H", "O", "T">>

\* process.exit(code), and the end of the process once bootstrap() has resolved
exitWith(m, code) == [m EXCEPT !.pc = "exited", !.exit = <<code>>]

interruptedKeepsRunning(m) == [m EXCEPT !.trail = Append(@, "SIGINT")]

\* lines 148-151: the SIGINT handler
interrupted(m) == [exitWith(m, 0) EXCEPT !.trail = Append(@, "SIGINT")]

unhandledRejectionExitsClean(m, reason) ==
    [m EXCEPT !.pc = "done", !.exit = <<0>>, !.rejection = <<reason>>]

\* lines 156-159: the unhandledRejection handler, for the error bootstrap() rejected with
unhandledRejection(m, reason) == [exitWith(m, 1) EXCEPT !.rejection = <<reason>>]

\* an error was raised to bootstrap() or to the function of its span
failed(m) == [m EXCEPT !.trail = Append(@, "error")]

adapterResolvedDespiteFailure(m, outcome) ==
    [m EXCEPT !.pc = "usecase", !.adapter = <<outcome.value>>,
              !.trail = Append(@, IF outcome.status = "threw" THEN "error" ELSE "adapter")]

\* lines 120-121: the adapter await yields, or the end of the function of the span
adapterResolved(m, outcome) ==
    IF outcome.status = "threw"
    THEN [failed(m) EXCEPT !.pc = "closing"]
    ELSE [m EXCEPT !.pc = "usecase", !.adapter = <<outcome.value>>,
                   !.trail = Append(@, "adapter")]

quoteFetchedNotRendered(m, outcome) ==
    IF outcome.status = "returned"
    THEN [m EXCEPT !.pc = "closing", !.quote = <<outcome.value>>, !.trail = Append(@, "quote")]
    ELSE [failed(m) EXCEPT !.pc = "closing"]

\* lines 136-139: the quote that await yields is rendered, or the function of the
\* span ends with the error
quoteFetched(m, outcome) ==
    IF outcome.status = "returned"
    THEN [m EXCEPT !.pc = "closing", !.rendered = TRUE, !.quote = <<outcome.value>>,
                   !.trail = @ \o <<"quote", "render">>]
    ELSE [failed(m) EXCEPT !.pc = "closing"]

\* GetMarketSnapshot.js line 35: execute(symbol) opens its span and runs the traced
\* function up to its first await
executeCall(symbol, io) ==
    traceSpanCall(STR_DOMAIN, STR_GET_MARKET_SNAPSHOT, [kind |-> "execute", value |-> symbol],
                  executeMeta(symbol), io)

\* GetMarketSnapshot.js lines 39-48: the traced function refuses the symbol, or calls
\* fetchQuote with the clean symbol on the port the use case was constructed with
fetchCalled(m, adapter, symbol) ==
    IF symbolRefused(symbol)
    THEN [m EXCEPT !.pc = "fetched"]
    ELSE [m EXCEPT !.pc = "fetch",
                   !.fetch = Append(@, [adapter |-> adapter, symbol |-> cleanSymbolOf(symbol),
                                        outcome |-> NoOutcome]),
                   !.trail = Append(@, "fetchQuote")]

\* GetMarketSnapshot.js line 48: the pending fetchQuote settles, after logging what
\* the adapter logs
fetchSettles ==
    \E r \in fetchQuoteOutcomes(main.fetch[Len(main.fetch)].adapter,
                                main.fetch[Len(main.fetch)].symbol, diag) :
        /\ main' = [main EXCEPT !.pc = "fetched",
                                !.fetch[Len(main.fetch)].outcome = r.outcome]
        /\ diag' = r.diag
        /\ stack' = deliver(stack, r.outcome)

\* line 72: await tracer.initialize(PROJECT_ROOT)
MainInitialize ==
    /\ main.pc = "start"
    /\ main' = [main EXCEPT !.pc = "mkdir"]
    /\ initializeCall(PROJECT_ROOT, Undefined)
    /\ UNCHANGED <<enableTracing, env, now, stack, ncalls, faults, manifestFile>>

MainInitializeSettles ==
    /\ main.pc = "mkdir"
    /\ main' = [main EXCEPT !.pc = "hydrate", !.trail = Append(@, "initialize")]
    /\ \E mk \in IoOutcomes, io \in IoOutcomes :
           /\ initializeResume(mk, io)
           /\ faults' = faults + Fault(mk) + Fault(io)
    /\ UNCHANGED <<enableTracing, env, now, stack, seed, ncalls, manifestFile>>

\* line 75: EnvironmentService.hydrate()
MainHydrate ==
    /\ main.pc = "hydrate"
    /\ env' = dotenvConfig(env, main.dotenv)
    /\ enableTracing' = hydrateFlag(env, main.dotenv)
    /\ main' = [main EXCEPT !.pc = "input"]
    /\ UNCHANGED <<tracer, fs, diag, now, pendingInit, stack, ret, seed, ncalls, faults,
                   manifestFile>>

\* lines 88-90
MainHelp ==
    /\ main.pc = "input"
    /\ Includes(main.argv, "--help") \/ Includes(main.argv, "-h")
    /\ main' = exitWith([main EXCEPT !.trail = Append(@, "help")], 0)
    /\ UNCHANGED <<tracer, enableTracing, env, fs, diag, now, pendingInit, stack, ret, seed,
                   ncalls, faults, manifestFile>>

\* lines 92-95
MainAutomated ==
    /\ main.pc = "input"
    /\ ~(Includes(main.argv, "--help") \/ Includes(main.argv, "-h"))
    /\ Len(main.argv) > 0
    /\ main' = [main EXCEPT !.pc = "execute", !.mode = modeOf(main.argv),
                            !.symbol = symbolOf(main.argv), !.trail = Append(@, "context")]
    /\ UNCHANGED <<tracer, enableTracing, env, fs, diag, now, pendingInit, stack, ret, seed,
                   ncalls, faults, manifestFile>>

\* lines 98-101: the menu runs inside the span CLI/USER_INTERACTION
MainMenuSpan ==
    /\ main.pc = "input"
    /\ Len(main.argv) = 0
    /\ \E m \in MenuOperations, io \in IoOutcomes :
           /\ traceSpanCall(STR_CLI, STR_USER_INTERACTION, menuOperation(m), EmptyObject, io)
           /\ faults' = faults + Fault(io)
    /\ main' = [main EXCEPT !.pc = "menu", !.trail = Append(@, "prompt")]
    /\ UNCHANGED <<tracer, enableTracing, env, now, pendingInit, seed, ncalls, manifestFile>>

\* MenuSystem.promptMode, lines 70-73 of MenuSystem.js: the answer Q ends the process
MainMenuQuits ==
    /\ main.pc = "menu"
    /\ stack # <<>>
    /\ main' = exitWith([main EXCEPT !.trail = Append(@, "quit")], 0)
    /\ UNCHANGED <<tracer, enableTracing, env, fs, diag, now, pendingInit, stack, ret, seed,
                   ncalls, faults, manifestFile>>

\* lines 101-109: the selection arrives, or the menu failed
MainMenuSettles ==
    /\ main.pc = "menu"
    /\ stack # <<>>
    /\ \E io \in IoOutcomes :
           LET f == stack[Len(stack)]
               r == traceSpanAfter(f, runOperation(f.op, f.child), io)
           IN /\ io # "ok" => r.attempted
              /\ fs' = r.fs
              /\ stack' = deliver(SubSeq(stack, 1, Len(stack) - 1), r.outcome)
              /\ ret' = returnOf(f, runOperation(f.op, f.child), 1, r.outcome, io, r.fs)
              /\ faults' = faults + Fault(io)
              /\ IF r.outcome.status = "returned"
                 THEN /\ main' = [main EXCEPT !.pc = "execute", !.mode = r.outcome.value.mode,
                                              !.symbol = r.outcome.value.symbol,
                                              !.trail = Append(@, "context")]
                      /\ diag' = r.diag
                 ELSE /\ main' = exitWith(failed(main), 1)
                      /\ diag' = Append(r.diag, <<"Terminal Menu System failure",
                                                  r.outcome.value>>)
    /\ UNCHANGED <<tracer, enableTracing, env, now, pendingInit, seed, ncalls, manifestFile>>

\* line 141: the meta of the span SYSTEM/BOOTSTRAP_SEQUENCE
bootstrapMeta(m) == [mode |-> m.mode, symbol |-> m.symbol]

\* line 117
MainBootstrapSpan ==
    /\ main.pc = "execute"
    /\ \E io \in IoOutcomes :
           /\ traceSpanCall(STR_SYSTEM, STR_BOOTSTRAP_SEQUENCE,
                            [kind |-> "bootstrap", value |-> Undefined], bootstrapMeta(main), io)
           /\ faults' = faults + Fault(io)
    /\ main' = [main EXCEPT !.pc = "load"]
    /\ UNCHANGED <<tracer, enableTracing, env, now, pendingInit, seed, ncalls, manifestFile>>

\* lines 120-121: a failure of loadAdapter is logged by its catch and ends the
\* function of the span
MainLoadAdapter ==
    /\ main.pc = "load"
    /\ stack # <<>>
    /\ \E mod \in MainModuleKinds, v \in MainValidatorKinds :
           LET a == loadAdapter(diag, PROJECT_ROOT, main.mode, manifestFile, mod, v, NoManifest)
           IN /\ v # "returns" => a.configCalls # <<>>
              /\ diag' = a.diag
              /\ main' = adapterResolved(main, a.outcome)
              /\ IF a.outcome.status = "threw"
                 THEN stack' = deliver(stack, a.outcome)
                 ELSE UNCHANGED stack
    /\ UNCHANGED <<tracer, enableTracing, env, fs, now, pendingInit, ret, seed, ncalls, faults,
                   manifestFile>>

\* lines 129-136: useCase.execute opens the span DOMAIN/GET_MARKET_SNAPSHOT
MainExecute ==
    /\ main.pc = "usecase"
    /\ LET symbol == JsString(sanitizedSymbolOf(main.symbol))
       IN /\ main' = fetchCalled(main, main.adapter[1], symbol)
          /\ \E io \in IoOutcomes :
                 /\ executeCall(symbol, io)
                 /\ faults' = faults + Fault(io)
    /\ UNCHANGED <<tracer, enableTracing, env, now, pendingInit, seed, ncalls, manifestFile>>

\* GetMarketSnapshot.js line 48: fetchQuote settles
MainFetchSettles ==
    /\ main.pc = "fetch"
    /\ Len(stack) = 2
    /\ fetchSettles
    /\ UNCHANGED <<tracer, enableTracing, env, fs, now, pendingInit, ret, seed, ncalls, faults,
                   manifestFile>>

\* lines 136-139: execute settles; its quote is rendered
MainExecuteSettles ==
    /\ main.pc = "fetched"
    /\ Len(stack) = 2
    /\ \E io \in IoOutcomes :
           /\ traceSpanSettle(io)
           /\ faults' = faults + Fault(io)
    /\ main' = quoteFetched(main, stack'[1].child)
    /\ UNCHANGED <<tracer, enableTracing, env, now, pendingInit, seed, ncalls, manifestFile>>

\* lines 141-142 and 156-159: the span closes; a rejection of bootstrap() reaches
\* the unhandledRejection handler
MainBootstrapSettles ==
    /\ main.pc = "closing"
    /\ Len(stack) = 1
    /\ \E io \in IoOutcomes :
           LET f == stack[1]
               r == traceSpanAfter(f, runOperation(f.op, f.child), io)
           IN /\ io # "ok" => r.attempted
              /\ fs' = r.fs
              /\ stack' = <<>>
              /\ ret' = returnOf(f, runOperation(f.op, f.child), 1, r.outcome, io, r.fs)
              /\ faults' = faults + Fault(io)
              /\ IF r.outcome.status = "returned"
                 THEN /\ main' = [main EXCEPT !.pc = "done", !.exit = <<0>>]
                      /\ diag' = r.diag
                 ELSE /\ main' = unhandledRejection(main, r.outcome.value)
                      /\ diag' = Append(r.diag, <<"Critical Unhandled Rejection: ",
                                                  r.outcome.value>>)
    /\ UNCHANGED <<tracer, enableTracing, env, now, pendingInit, seed, ncalls, manifestFile>>

\* lines 148-151
MainSigint ==
    /\ main.pc \notin {"exited", "done"}
    /\ main' = interrupted(main)
    /\ UNCHANGED <<tracer, enableTracing, env, fs, diag, now, pendingInit, stack, ret, seed,
                   ncalls, faults, manifestFile>>

MainTick ==
    /\ main.pc \notin {"exited", "done"}
    /\ Tick

InitMain ==
    /\ tracer = [projectRoot |-> Null, traceFile |-> <<Null>>, isInitialized |-> FALSE,
                 sessionID |-> Null]
    /\ enableTracing = FALSE
    /\ \E shell \in ShellEnvs, file \in MainDotenvFiles, argv \in ArgvValues :
           /\ env = dotenvConfig(shell, file)
           /\ main = [pc |-> "start", argv |-> argv, dotenv |-> file,
                      mode |-> Null, symbol |-> Undefined, adapter |-> <<>>,
                      fetch |-> <<>>, quote |-> <<>>, rendered |-> FALSE,
                      rejection |-> <<>>, trail |-> <<>>, exit |-> <<>>]
    /\ manifestFile \in MainManifestFiles
    /\ fs = [p \in Paths |-> <<>>]
    /\ diag = <<>>
    /\ now = 0
    /\ pendingInit = <<>>
    /\ stack = <<>>
    /\ ret = [call |-> "none"]
    /\ seed = 0
    /\ ncalls = 0
    /\ faults = 0

NextMain ==
    \/ MainInitialize
    \/ MainInitializeSettles
    \/ MainHydrate
    \/ MainHelp
    \/ MainAutomated
    \/ MainMenuSpan
    \/ MainMenuQuits
    \/ MainMenuSettles
    \/ MainBootstrapSpan
    \/ MainLoadAdapter
    \/ MainExecute
    \/ MainFetchSettles
    \/ MainExecuteSettles
    \/ MainBootstrapSettles
    \/ MainSigint
    \/ MainTick

SpecMain == InitMain /\ [][NextMain]_vars

\* the steps of a run once what it awaits has settled: every action but the signal,
\* the operator's Q and the passing of time
MainProgress ==
    \/ MainInitialize
    \/ MainInitializeSettles
    \/ MainHydrate
    \/ MainHelp
    \/ MainAutomated
    \/ MainMenuSpan
    \/ MainMenuSettles
    \/ MainBootstrapSpan
    \/ MainLoadAdapter
    \/ MainExecute
    \/ MainFetchSettles
    \/ MainExecuteSettles
    \/ MainBootstrapSettles


\* ---------------------------------------------------------------- two processes, one trace file
\* the tracer of another process that was started on the same day with the same
\* root and namespace: the same trace file, a session of its own
PeerTracer ==
    [projectRoot |-> "/app", traceFile |-> traceFileOf("/app", namespaceOf(Undefined)),
     isInitialized |-> TRUE, sessionID |-> sessionIdOf(0)]

PeerLines == Len(SelectSeq(fs[PeerTracer.traceFile], LAMBDA l : l.sid = PeerTracer.sessionID))

\* Tracer.js lines 96-106 in the other process, whose tracing is enabled
PeerRecord ==
    /\ PeerLines < MaxPeerLines
    /\ \E layer \in LayerArgs, event \in EventArgs :
           fs' = appendFile(fs, PeerTracer.traceFile,
                            JSONstringify(entryOf(PeerTracer, layer, event, EmptyObject)))
    /\ UNCHANGED <<tracer, enableTracing, env, diag, now, pendingInit, stack, ret, seed, ncalls,
                   faults, main, manifestFile>>

NextWriters ==
    \/ Initialize
    \/ InitializeMkdirSettles
    \/ Hydrate
    \/ Record
    \/ PeerRecord

SpecWriters == Init /\ [][NextWriters]_vars

\* ---------------------------------------------------------------- a script calling the use case
\* the ports a script constructs the use case with: the mock adapter as the factory
\* constructs it, the mock adapter that never fails, and an object of the script
\* whose fetchQuote resolves or rejects and logs nothing
MockAdapter == [className |-> "MockMarketAdapter", args |-> <<>>]
ReliableMockAdapter == [className |-> "MockMarketAdapter", args |-> <<[failureRate |-> 0]>>]
OtherPort == [className |-> "StubPort", args |-> <<>>]
PortArgs == {JsUndefined, JsNull, JsObject(MockAdapter), JsObject(ReliableMockAdapter),
             JsObject(OtherPort)}
TracerArgs == {JsUndefined, JsNull, JsObject("tracer")}
SymbolArgs == {JsUndefined, JsNull, JsNumber(42), JsString(""), JsString(" "),
               JsString(" spx "), JsString("es"), JsString("SPX")}

\* diag is the diagnostic log as it was when execute was called
Script ==
    [pc |-> "script", useCase |-> <<>>, symbol |-> <<>>, fetch |-> <<>>, trail |-> <<>>,
     diag |-> <<>>]

\* GetMarketSnapshot.js lines 17-24
Construct ==
    /\ Idle
    /\ main.pc = "script"
    /\ main.useCase = <<>>
    /\ \E port \in PortArgs, tr \in TracerArgs :
           LET made == newGetMarketSnapshot(port, tr)
           IN /\ ret' = [call |-> "new GetMarketSnapshot", port |-> port, tracer |-> tr,
                         outcome |-> made]
              /\ main' = IF made.status = "returned"
                         THEN [main EXCEPT !.useCase = <<made.value>>]
                         ELSE main
    /\ UNCHANGED <<tracer, enableTracing, env, fs, diag, now, pendingInit, stack, seed, ncalls,
                   faults, manifestFile>>

\* GetMarketSnapshot.js lines 32-48: execute(symbol) up to its await of fetchQuote
Execute ==
    /\ Idle
    /\ main.pc = "script"
    /\ main.useCase # <<>>
    /\ \E symbol \in SymbolArgs, io \in IoOutcomes :
           /\ main' = fetchCalled([main EXCEPT !.symbol = <<symbol>>, !.fetch = <<>>,
                                               !.trail = <<>>, !.diag = diag],
                                  main.useCase[1].marketDataPort.val, symbol)
           /\ executeCall(symbol, io)
           /\ faults' = faults + Fault(io)
    /\ UNCHANGED <<tracer, enableTracing, env, now, pendingInit, seed, ncalls, manifestFile>>

\* GetMarketSnapshot.js line 48: fetchQuote settles
FetchSettles ==
    /\ main.pc = "fetch"
    /\ Len(stack) = 1
    /\ fetchSettles
    /\ UNCHANGED <<tracer, enableTracing, env, fs, now, pendingInit, ret, seed, ncalls, faults,
                   manifestFile>>

\* GetMarketSnapshot.js lines 49-57: the traced function and then the span settle;
\* the script calls execute once
ExecuteSettles ==
    /\ main.pc = "fetched"
    /\ Len(stack) = 1
    /\ \E io \in IoOutcomes :
           /\ traceSpanSettle(io)
           /\ faults' = faults + Fault(io)
    /\ main' = [main EXCEPT !.pc = "finished"]
    /\ UNCHANGED <<tracer, enableTracing, env, now, pendingInit, seed, ncalls, manifestFile>>

InitUseCase ==
    /\ tracer = [projectRoot |-> Null, traceFile |-> <<Null>>, isInitialized |-> FALSE,
                 sessionID |-> Null]
    /\ enableTracing = FALSE
    /\ env \in StartEnvs
    /\ fs = [p \in Paths |-> <<>>]
    /\ diag = <<>>
    /\ now = 0
    /\ pendingInit = <<>>
    /\ stack = <<>>
    /\ ret = [call |-> "none"]
    /\ seed = 0
    /\ ncalls = 0
    /\ faults = 0
    /\ main = Script
    /\ manifestFile = StandardManifest

NextUseCase ==
    \/ Initialize
    \/ InitializeMkdirSettles
    \/ Hydrate
    \/ Construct
    \/ Execute
    \/ FetchSettles
    \/ ExecuteSettles
    \/ Tick

SpecUseCase == InitUseCase /\ [][NextUseCase]_vars

\* ---------------------------------------------------------------- a script constructing quotes
QuoteSymbols == {JsUndefined, JsNull, JsNumber(42), JsString(""), JsString(" "), JsString("spx"),
                 JsString("SPX")}
QuotePrices == {JsUndefined, JsString("SPX"), JsNaN, JsNumber(-1), JsNumber(0), JsNumber(6800)}
QuoteTimestamps == {JsUndefined, JsString("SPX"), JsNaN, JsNumber(0), JsNumber(StartTime)}
QuoteSources == {JsUndefined, JsString(""), JsString("Test")}
QuoteFields == {"symbol", "price", "timestamp", "source"}

Entities == [pc |-> "entities", quote |-> <<>>]

\* part_001 lines 16-37
NewMarketQuote ==
    /\ main.pc = "entities"
    /\ \E symbol \in QuoteSymbols, price \in QuotePrices, timestamp \in QuoteTimestamps,
          source \in QuoteSources :
           LET params == [symbol |-> symbol, price |-> price, timestamp |-> timestamp,
                          source |-> source]
               made == newMarketQuote(params)
           IN /\ ret' = [call |-> "new MarketQuote", params |-> params, outcome |-> made]
              /\ main' = IF made.status = "returned"
                         THEN [main EXCEPT !.pc = "made", !.quote = <<made.value>>]
                         ELSE [main EXCEPT !.pc = "made"]
    /\ UNCHANGED <<tracer, enableTracing, env, fs, diag, now, pendingInit, stack, seed, ncalls,
                   faults, manifestFile>>

\* quote.field = value, on the quote the script constructed
AssignField ==
    /\ main.pc = "made"
    /\ main.quote # <<>>
    /\ \E field \in QuoteFields, value \in {JsNumber(0), JsString("es")} :
           LET a == assignField(main.quote[1], field, value)
           IN /\ ret' = [call |-> "assign", field |-> field, value |-> value,
                         before |-> main.quote[1], outcome |-> a.outcome]
              /\ main' = [main EXCEPT !.quote = <<a.object>>]
    /\ UNCHANGED <<tracer, enableTracing, env, fs, diag, now, pendingInit, stack, seed, ncalls,
                   faults, manifestFile>>

InitQuote ==
    /\ tracer = [projectRoot |-> Null, traceFile |-> <<Null>>, isInitialized |-> FALSE,
                 sessionID |-> Null]
    /\ enableTracing = FALSE
    /\ env = [ENABLE_TRACING |-> Unset, LOG_LEVEL |-> Undefined]
    /\ fs = [p \in Paths |-> <<>>]
    /\ diag = <<>>
    /\ now = 0
    /\ pendingInit = <<>>
    /\ stack = <<>>
    /\ ret = [call |-> "none"]
    /\ seed = 0
    /\ ncalls = 0
    /\ faults = 0
    /\ main = Entities
    /\ manifestFile = StandardManifest

NextQuote ==
    \/ NewMarketQuote
    \/ AssignField

SpecQuote == InitQuote /\ [][NextQuote]_vars

\* ---------------------------------------------------------------- a caller that does not await initialize
\* initialize is async: a caller that does not await it can call it again, or call
\* record, while mkdir of an earlier call has not settled.  At most MaxOverlap
\* initialize calls are suspended at a time, and their mkdirs settle in any order.
InitializeUnawaited ==
    /\ stack = <<>>
    /\ Len(pendingInit) < MaxOverlap
    /\ seed < MaxOverlap + MaxFaults
    /\ \E root \in Roots, ns \in NamespaceArgs : initializeCall(root, ns)
    /\ UNCHANGED <<enableTracing, env, now, stack, ncalls, faults, main, manifestFile>>

MkdirSettles ==
    /\ \E i \in DOMAIN pendingInit : \E mk, io \in IoOutcomes :
           /\ initializeResumeAt(i, mk, io)
           /\ faults' = faults + Fault(mk) + Fault(io)
    /\ UNCHANGED <<enableTracing, env, now, stack, seed, ncalls, main, manifestFile>>

\* record called while an initialize call is suspended
RecordUnawaited ==
    /\ stack = <<>>
    /\ pendingInit # <<>>
    /\ ncalls < MaxCalls
    /\ \E layer \in LayerArgs, event \in EventArgs, data \in DataArgs, io \in IoOutcomes :
           recordCall(layer, event, data, io)
    /\ ncalls' = ncalls + 1
    /\ UNCHANGED <<tracer, enableTracing, env, now, pendingInit, stack, seed, main, manifestFile>>

NextOverlap ==
    \/ InitializeUnawaited
    \/ MkdirSettles
    \/ RecordUnawaited
    \/ Hydrate
    \/ Record
    \/ TraceSpan
    \/ OperationSettles

\* the process starts with tracing switched on in its environment, at level info
InitOverlap ==
    /\ Init
    /\ env.ENABLE_TRACING.set
    /\ env.LOG_LEVEL = "info"

SpecOverlap == InitOverlap /\ [][NextOverlap]_vars

\* ---------------------------------------------------------------- a caller with levels of its own
\* LOG_LEVEL and data.level are free text: the empty string, a name that is no level,
\* and names that every object inherits
OtherLevels == {"", "verbose", "toString", "constructor"}
LevelEnvs == [ENABLE_TRACING : {Val(<<"t", "r", "u", "e">>)},
              LOG_LEVEL : LogLevelValues \cup OtherLevels]
LevelDataArgs == {EmptyObject} \cup {[level |-> l] : l \in LevelNames \cup OtherLevels}

InitLevels ==
    /\ tracer = [projectRoot |-> Null, traceFile |-> <<Null>>, isInitialized |-> FALSE,
                 sessionID |-> Null]
    /\ enableTracing = FALSE
    /\ env \in LevelEnvs
    /\ fs = [p \in Paths |-> <<>>]
    /\ diag = <<>>
    /\ now = 0
    /\ pendingInit = <<>>
    /\ stack = <<>>
    /\ ret = [call |-> "none"]
    /\ seed = 0
    /\ ncalls = 0
    /\ faults = 0
    /\ main = NotRunning
    /\ manifestFile = StandardManifest

RecordAtLevel ==
    /\ Idle
    /\ ncalls < MaxCalls
    /\ \E layer \in LayerArgs, event \in EventArgs, data \in LevelDataArgs, io \in IoOutcomes :
           recordCall(layer, event, data, io)
    /\ ncalls' = ncalls + 1
    /\ UNCHANGED <<tracer, enableTracing, env, now, pendingInit, stack, seed, main, manifestFile>>

NextLevels ==
    \/ Hydrate
    \/ Initialize
    \/ InitializeMkdirSettles
    \/ RecordAtLevel

SpecLevels == InitLevels /\ [][NextLevels]_vars

\* ---------------------------------------------------------------- properties
\* the lines a completed call appended to file p, and to all files together
NewLines(r, p) == SubSeq(r.after[p], Len(r.before[p]) + 1, Len(r.after[p]))
Grew(r) == TotalLines(r.after) - TotalLines(r.before)
KeepsOldLines(r) ==
    \A p \in Paths : SubSeq(r.after[p], 1, Len(r.before[p])) = r.before[p]

\* the order error < warn < info < debug, and the defaults of both levels
Verbosity(l) == CASE l = "error" -> 0 [] l = "warn" -> 1 [] l = "info" -> 2 [] l = "debug" -> 3
EventLevel(data) == IF "level" \in DOMAIN data THEN data.level ELSE "info"
ConfiguredLevel == IF env.LOG_LEVEL = Undefined THEN "info" ELSE env.LOG_LEVEL
MoreVerbose(data) == Verbosity(EventLevel(data)) > Verbosity(ConfiguredLevel)

\* what calling the operation directly yields
Direct(op) == IF op.kind = "value" THEN Returned(op.value) ELSE Threw(op.value)

SpanDone == ret.call = "traceSpan"
ActiveSpanDone == SpanDone /\ ret.enabled /\ ret.tracerBefore.isInitialized
SpanLines == NewLines(ret, ret.tracerBefore.traceFile)
CarriesMeta(dat, meta) ==
    \A k \in DOMAIN meta : ~IsUndefined(meta, k) => (k \in DOMAIN dat /\ dat[k] = meta[k])

\* C1: traceSpan returns exactly the operation's result when the operation succeeds
\* and rejects with exactly the operation's error when it fails, whether tracing is
\* enabled or disabled, the tracer initialized or not, and whichever trace write of
\* the span fails.
C1_OutcomeIsTheOperations ==
    (SpanDone /\ ret.op.kind \in {"value", "error"}) =>
        /\ ret.outcome = Direct(ret.op)
        /\ ret.outcome = ret.opOutcome

\* a span on an initialized, enabled tracer whose operation failed and whose START
\* write failed
C1_Witness ==
    /\ ActiveSpanDone
    /\ ret.op.kind = "error"
    /\ ret.ioStart # "ok"
    /\ ret.outcome = Threw(ret.op.value)

\* C2 as stated: with tracing enabled and the tracer initialized, a span whose
\* operation succeeds appends exactly two lines, START then COMPLETE, the COMPLETE
\* line carrying durationMs >= 0 and the caller's meta, and returns the result.
C2_TwoLinesOnSuccess ==
    (ActiveSpanDone /\ ret.op.kind = "value") =>
        /\ Grew(ret) = 2
        /\ Len(SpanLines) = 2
        /\ SpanLines[1].evt = toUpperCase(ret.label) \o STR_START
        /\ SpanLines[2].evt = toUpperCase(ret.label) \o STR_COMPLETE
        /\ "durationMs" \in DOMAIN SpanLines[2].dat
        /\ SpanLines[2].dat.durationMs >= 0
        /\ CarriesMeta(SpanLines[2].dat, ret.meta)
        /\ ret.outcome = Returned(ret.op.value)

\* C2 amended: the same, for a span whose level (meta.level, default info) is not
\* more verbose than the system level and whose two appends succeed; durationMs is
\* the time between the two clock readings.
C2_TwoLinesOnSuccessWhenWritten ==
    (ActiveSpanDone /\ ret.op.kind = "value" /\ ~MoreVerbose(ret.meta)
        /\ ret.ioStart = "ok" /\ ret.ioEnd = "ok") =>
        /\ Grew(ret) = 2
        /\ KeepsOldLines(ret)
        /\ Len(SpanLines) = 2
        /\ SpanLines[1].evt = toUpperCase(ret.label) \o STR_START
        /\ SpanLines[1].lyr = toUpperCase(ret.layer)
        /\ CarriesMeta(SpanLines[1].dat, ret.meta)
        /\ SpanLines[2].evt = toUpperCase(ret.label) \o STR_COMPLETE
        /\ SpanLines[2].lyr = toUpperCase(ret.layer)
        /\ "durationMs" \in DOMAIN SpanLines[2].dat
        /\ SpanLines[2].dat.durationMs >= 0
        /\ SpanLines[2].dat.durationMs = ret.endTime - ret.startTime
        /\ CarriesMeta(SpanLines[2].dat, ret.meta)
        /\ ret.outcome = Returned(ret.op.value)

\* a successful span that took time and wrote both of its lines
C2_Witness ==
    /\ ActiveSpanDone
    /\ ret.op.kind = "value"
    /\ Len(SpanLines) = 2
    /\ SpanLines[2].dat.durationMs > 0

\* C3 as stated: with tracing enabled and the tracer initialized, a span whose
\* operation fails appends exactly two lines, START then FAILED, the FAILED line
\* carrying the elapsed duration and the failure's message, and no COMPLETE line.
C3_TwoLinesOnFailure ==
    (ActiveSpanDone /\ ret.op.kind = "error") =>
        /\ Grew(ret) = 2
        /\ Len(SpanLines) = 2
        /\ SpanLines[1].evt = toUpperCase(ret.label) \o STR_START
        /\ SpanLines[2].evt = toUpperCase(ret.label) \o STR_FAILED
        /\ "durationMs" \in DOMAIN SpanLines[2].dat
        /\ "error" \in DOMAIN SpanLines[2].dat
        /\ SpanLines[2].dat.error = ret.op.value

\* C3 amended: the same, for a span whose level (meta.level, default info) is not
\* more verbose than the system level and whose two appends succeed.
C3_TwoLinesOnFailureWhenWritten ==
    (ActiveSpanDone /\ ret.op.kind = "error" /\ ~MoreVerbose(ret.meta)
        /\ ret.ioStart = "ok" /\ ret.ioEnd = "ok") =>
        /\ Grew(ret) = 2
        /\ KeepsOldLines(ret)
        /\ Len(SpanLines) = 2
        /\ SpanLines[1].evt = toUpperCase(ret.label) \o STR_START
        /\ SpanLines[2].evt = toUpperCase(ret.label) \o STR_FAILED
        /\ "durationMs" \in DOMAIN SpanLines[2].dat
        /\ SpanLines[2].dat.durationMs = ret.endTime - ret.startTime
        /\ "error" \in DOMAIN SpanLines[2].dat
        /\ SpanLines[2].dat.error = ret.op.value
        /\ CarriesMeta(SpanLines[2].dat, ret.meta)
        /\ \A i \in DOMAIN SpanLines : SpanLines[i].evt # toUpperCase(ret.label) \o STR_COMPLETE

\* a failed span that took time and wrote both of its lines
C3_Witness ==
    /\ ActiveSpanDone
    /\ ret.op.kind = "error"
    /\ Len(SpanLines) = 2
    /\ SpanLines[2].evt = toUpperCase(ret.label) \o STR_FAILED
    /\ SpanLines[2].dat.durationMs > 0

\* C4: with tracing disabled, traceSpan is the operation called directly: the same
\* result or error, the operation invoked once, no line appended and nothing logged,
\* whether or not the tracer was initialized.
C4_DisabledIsDirectCall ==
    (SpanDone /\ ~ret.enabled) =>
        /\ ret.outcome = Direct(ret.op)
        /\ ret.invoked = 1
        /\ ret.after = ret.before
        /\ ~ret.traced

\* a span run with tracing disabled on an initialized tracer, returning a result
C4_Witness ==
    /\ SpanDone
    /\ ~ret.enabled
    /\ ret.tracerBefore.isInitialized
    /\ ret.outcome = Returned("quote")

RecordDone == ret.call = "record"
ActiveRecordDone == RecordDone /\ ret.enabled /\ ret.tracerBefore.isInitialized
RecordLines == NewLines(ret, ret.tracerBefore.traceFile)

\* C5: record appends nothing when the event's level (data.level, default info) is
\* strictly more verbose than the system level (LOG_LEVEL, default info); otherwise
\* a record call on an enabled, initialized tracer whose append succeeds appends
\* the event.
C5_LevelFilter ==
    RecordDone =>
        /\ MoreVerbose(ret.data) => ret.after = ret.before
        /\ (ActiveRecordDone /\ ~MoreVerbose(ret.data) /\ ret.io = "ok") =>
               /\ Grew(ret) = 1
               /\ Len(RecordLines) = 1
               /\ RecordLines[1].evt = toUpperCase(ret.event)

\* system level info (LOG_LEVEL unset) and a debug event on an active tracer
C5_Witness ==
    /\ ActiveRecordDone
    /\ env.LOG_LEVEL = Undefined
    /\ EventLevel(ret.data) = "debug"
    /\ ret.after = ret.before

\* C6: with ENABLE_TRACING set to true in the environment and the system level debug,
\* once initialize has completed every record call whose append succeeds appends
\* exactly one line, made of the five fields ts, sid (the session id), lyr (the layer
\* in upper case), evt (the event in upper case) and dat (the metadata).
C6_EveryRecordAppendsOneLine ==
    (/\ RecordDone
     /\ ret.tracerBefore.isInitialized
     /\ toLowerCase(StringOf(env.ENABLE_TRACING)) = <<"t", "r", "u", "e">>
     /\ ConfiguredLevel = "debug"
     /\ ret.io = "ok") =>
        /\ Grew(ret) = 1
        /\ Len(RecordLines) = 1
        /\ DOMAIN RecordLines[1] = {"ts", "sid", "lyr", "evt", "dat"}
        /\ RecordLines[1].sid = ret.tracerBefore.sessionID
        /\ RecordLines[1].lyr = toUpperCase(ret.layer)
        /\ RecordLines[1].evt = toUpperCase(ret.event)
        /\ RecordLines[1].dat = ret.data

\* C7: a failed append inside record is not surfaced: record returns normally, the
\* failure goes to the diagnostic logger and nowhere else, nothing is appended, and
\* isInitialized, sessionID and traceFile are what they were.
C7_AppendFailureIsSilent ==
    (RecordDone /\ ret.io # "ok") =>
        /\ ret.outcome = Returned(Undefined)
        /\ ret.diagAfter = Append(ret.diagBefore, <<"[Tracer Error]: ", ret.io>>)
        /\ ret.after = ret.before
        /\ tracer = ret.tracerBefore

\* a record call whose append failed
C7_Witness ==
    /\ ActiveRecordDone
    /\ ret.io # "ok"
    /\ Len(ret.diagAfter) = Len(ret.diagBefore) + 1

InitializeDone == ret.call = "initialize"
InitializeFailed == InitializeDone /\ ~ret.early /\ ret.mkdir # "ok"
FailureLogged == \E i \in DOMAIN diag : diag[i][1] = "[Tracer] Initialization Failure: "

\* C8: a failed initialize returns normally and leaves the tracer uninitialized;
\* while it stays so, a record call appends nothing and a traceSpan call runs its
\* operation once and hands on its result or error unchanged, appending nothing.
C8_FailedInitializeIsHarmless ==
    /\ InitializeFailed =>
           /\ ret.outcome = Returned(Undefined)
           /\ ~tracer.isInitialized
           /\ tracer.traceFile = ret.tracerBefore.traceFile
           /\ ret.after = ret.before
           /\ FailureLogged
    /\ (RecordDone /\ ~ret.tracerBefore.isInitialized) => ret.after = ret.before
    /\ (SpanDone /\ ~ret.tracerBefore.isInitialized) =>
           /\ ret.invoked = 1
           /\ ret.outcome = Direct(ret.op)
           /\ ret.after = ret.before

\* after a failed initialize, with tracing enabled, a span re-raises its error
C8_Witness ==
    /\ FailureLogged
    /\ SpanDone
    /\ ret.enabled
    /\ ~ret.tracerBefore.isInitialized
    /\ ret.outcome = Threw("Upstream unreachable")

\* C9 as stated: in any sequence of initialize calls the session id and the trace
\* file path set by the first call are never changed by a later call.
C9_FirstCallFixesSession ==
    [][/\ tracer.sessionID # Null => tracer'.sessionID = tracer.sessionID
       /\ tracer.traceFile # <<Null>> => tracer'.traceFile = tracer.traceFile]_vars

\* C9 amended: once an initialize call has succeeded, no later initialize call
\* changes the session id, the trace file path or any other field of the tracer,
\* and a later call appends nothing and logs nothing.
C9_InitializeIsIdempotent ==
    [][/\ tracer.isInitialized => tracer' = tracer
       /\ (tracer.isInitialized /\ ret' # ret /\ ret'.call = "initialize") =>
              (ret'.early /\ fs' = fs /\ diag' = diag /\ ret'.after = ret'.before)]_vars

\* a later initialize call returned early on a tracer whose first call wrote its line
C9_Witness ==
    /\ InitializeDone
    /\ ret.early
    /\ tracer.isInitialized
    /\ tracer.traceFile = traceFileOf("/app", "plnexus")
    /\ Len(fs[tracer.traceFile]) >= 1

\* the spellings of "true", and the value of ENABLE_TRACING that holds after the
\* environment file was loaded over the process environment
TrueSpellings ==
    {<<a, b, c, d>> : a \in {"t", "T"}, b \in {"r", "R"}, c \in {"u", "U"}, d \in {"e", "E"}}
EffectiveTracing(e, file) ==
    IF e.ENABLE_TRACING.set THEN e.ENABLE_TRACING
    ELSE IF file.exists THEN file.ENABLE_TRACING ELSE Unset

\* C11: after hydrate the tracing flag is true exactly when ENABLE_TRACING, taken
\* from the process environment or else from the environment file, is "true" in
\* some spelling of upper and lower case, and false for every other value and when
\* it is absent.
C11_FlagFollowsEnableTracing ==
    ret.call = "hydrate" =>
        LET v == EffectiveTracing(ret.envBefore, ret.file)
        IN enableTracing <=> (v.set /\ v.val \in TrueSpellings)

\* C12: the flag is read on every call.  A record or traceSpan call made while the
\* flag is false appends nothing, also on an initialized tracer; a call made while
\* it is true on an initialized tracer appends (one line for record, two for
\* traceSpan, when the level passes and the appends succeed), also when the flag was
\* false at the time the tracer was initialized.
C12_FlagReadOnEveryCall ==
    /\ (RecordDone /\ ~ret.enabled) => ret.after = ret.before
    /\ (SpanDone /\ ~ret.enabled) => ret.after = ret.before
    /\ (ActiveRecordDone /\ ~MoreVerbose(ret.data) /\ ret.io = "ok") => Grew(ret) = 1
    /\ (ActiveSpanDone /\ ~MoreVerbose(ret.meta) /\ ret.ioStart = "ok" /\ ret.ioEnd = "ok") =>
           Grew(ret) = 2

\* a record call appended the first line of a trace file: the flag was false when the
\* tracer was initialized and true at the call
C12_Witness ==
    /\ ActiveRecordDone
    /\ faults = 0
    /\ Len(ret.before[ret.tracerBefore.traceFile]) = 0
    /\ Len(RecordLines) = 1
    /\ RecordLines[1].evt # STR_TRACER_READY

\* a completed loadAdapter call, the entry the manifest file declares for its mode,
\* and the steps of the call that its inputs make fail
LoadDone == ret.call = "loadAdapter"
Declares(file, mode) ==
    file.state = "parsed" /\ \E i \in DOMAIN file.adapters : file.adapters[i].mode = mode
EntryFor(file, mode) ==
    file.adapters[CHOOSE i \in DOMAIN file.adapters : file.adapters[i].mode = mode]
LoadFailed == LoadDone /\ ret.outcome.status = "threw"
WrapPrefix == "[AdapterFactory] Load failure for mode "
Wrapped(e) == "cause" \in DOMAIN e /\ e.msg = WrapPrefix
Reports(r, text) ==
    /\ r.outcome.status = "threw"
    /\ Wrapped(r.outcome.value)
    /\ r.outcome.value.cause.msg = text

\* C13: loadAdapter with a mode the manifest has no entry for fails, constructs no
\* adapter, and its message lists every mode the manifest declares, in the order of
\* the manifest.
C13_UnknownModeListsDeclaredModes ==
    (LoadDone /\ ret.file.state = "parsed" /\ ~Declares(ret.file, ret.mode)) =>
        /\ ret.outcome.status = "threw"
        /\ ret.constructed = <<>>
        /\ "available" \in DOMAIN ret.outcome.value.cause
        /\ ret.outcome.value.cause.available = DeclaredKeys(ret.file.adapters)

\* C14: whichever step of loadAdapter fails, the call throws one error: the prefix
\* "[AdapterFactory] Load failure for mode <mode>: " followed by the message of the
\* underlying error, which is itself not wrapped; the same error is the last thing
\* given to the diagnostic logger; and a call in which a step fails does throw.
C14_OneFailureShape ==
    LoadDone =>
        /\ ret.outcome.status = "threw" =>
               /\ Wrapped(ret.outcome.value)
               /\ ret.outcome.value.mode = ret.mode
               /\ ~Wrapped(ret.outcome.value.cause)
               /\ Len(ret.diagAfter) > Len(ret.diagBefore)
               /\ ret.diagAfter[Len(ret.diagAfter)] = <<ret.outcome.value>>
        /\ ret.file.state = "missing" => Reports(ret, "Manifest missing at: ")
        /\ ret.file.state = "unparseable" => Reports(ret, "Malformed manifest: ")
        /\ ret.file.state = "empty" => Reports(ret, "Cannot read properties of undefined")
        /\ (Declares(ret.file, ret.mode) /\ ret.module = "noModule") =>
               Reports(ret, "Cannot find module")
        /\ (Declares(ret.file, ret.mode) /\ ret.module = "noExport") =>
               Reports(ret, "Export not found in module at")
        /\ (Declares(ret.file, ret.mode) /\ ret.module = "constructorThrows") =>
               ret.outcome.status = "threw"
        /\ (Declares(ret.file, ret.mode) /\ ret.module = "ok" /\ ret.validator = "rejects"
               /\ EntryFor(ret.file, ret.mode).requiresConfig) =>
               Reports(ret, "Missing credential")

\* the provider configuration failed and loadAdapter threw the wrapped failure
C14_Witness ==
    /\ LoadDone
    /\ ret.configCalls = <<"Finnhub">>
    /\ Reports(ret, "Missing credential")
    /\ ret.constructed = <<>>

\* C15: when the entry declares requiresConfig, getProviderConfig is called once,
\* with the entry's configKey, and the adapter is constructed with that
\* configuration as its one argument; when it does not, the adapter is constructed
\* with no argument and getProviderConfig is not called.
C15_InjectionFollowsTheEntry ==
    (LoadDone /\ Declares(ret.file, ret.mode) /\ ret.module \in {"ok", "constructorThrows"}) =>
        LET e == EntryFor(ret.file, ret.mode)
        IN /\ e.requiresConfig =>
                  /\ ret.configCalls = <<e.configKey>>
                  /\ ret.outcome.status = "returned" =>
                         /\ ret.constructed = <<ret.outcome.value>>
                         /\ ret.outcome.value.className = e.className
                         /\ Len(ret.outcome.value.args) = 1
                         /\ ret.outcome.value.args[1].provider = e.configKey
                  /\ (ret.module = "ok" /\ ret.validator = "returns") =>
                         ret.outcome.status = "returned"
           /\ ~e.requiresConfig =>
                  /\ ret.configCalls = <<>>
                  /\ ret.module = "ok" =>
                         /\ ret.outcome.status = "returned"
                         /\ ret.constructed = <<ret.outcome.value>>
                         /\ ret.outcome.value.className = e.className
                         /\ ret.outcome.value.args = <<>>

\* the adapter of an entry that declares requiresConfig was constructed with the
\* configuration of its provider
C15_Witness ==
    /\ LoadDone
    /\ ret.outcome.status = "returned"
    /\ ret.configCalls = <<"Finnhub">>
    /\ Len(ret.outcome.value.args) = 1

\* C16: every loadAdapter call reads the manifest file as it is at the call,
\* whatever the call before it read: a removed file is reported missing, a removed
\* entry is reported unknown, and a redirected entry yields the new adapter.
C16_ManifestReadOnEveryCall ==
    LoadDone =>
        /\ ret.file.state = "parsed" =>
               /\ ret.manifest.status = "returned"
               /\ ret.manifest.value.adapters = ret.file.adapters
        /\ ret.file.state = "missing" => Reports(ret, "Manifest missing at: ")
        /\ (ret.file.state = "parsed" /\ ~Declares(ret.file, ret.mode)) =>
               ret.outcome.status = "threw"
        /\ (Declares(ret.file, ret.mode) /\ ret.module = "ok" /\ ret.validator = "returns") =>
               /\ ret.outcome.status = "returned"
               /\ ret.outcome.value.className = EntryFor(ret.file, ret.mode).className

\* the second of two consecutive calls read a manifest whose entry for the mode was
\* redirected after the first call
C16_Witness ==
    /\ LoadDone
    /\ ret.prior # NoManifest
    /\ ret.prior[1].status = "returned"
    /\ ret.manifest.status = "returned"
    /\ ret.prior[1].value.adapters # ret.manifest.value.adapters
    /\ ret.outcome.status = "returned"

\* C17 as stated: loadAdapter reports "manifest missing" exactly when the file does
\* not exist and "malformed manifest" exactly when the file exists and its content
\* cannot be parsed.
C17_ManifestFailuresByCause ==
    LoadDone =>
        /\ Reports(ret, "Manifest missing at: ") <=> ret.file.state = "missing"
        /\ Reports(ret, "Malformed manifest: ") <=> ret.file.state = "unparseable"

\* C17 amended: "manifest missing" exactly when the file does not exist, "malformed
\* manifest" exactly when the file exists and cannot be read or cannot be parsed.
C17_ManifestFailuresByCauseOrRead ==
    LoadDone =>
        /\ Reports(ret, "Manifest missing at: ") <=> ret.file.state = "missing"
        /\ Reports(ret, "Malformed manifest: ") <=>
               ret.file.state \in {"unreadable", "unparseable"}

\* the manifest file exists and cannot be read
C17_Witness ==
    /\ LoadDone
    /\ ret.file.state = "unreadable"
    /\ Reports(ret, "Malformed manifest: ")

\* C18: getProviderConfig fails with the underlying error, after logging the failure
\* with the remediation hint, when the validator module is missing, when the
\* validator has no validate function, and when validate throws or rejects.
C18_ConfigFailureIsLogged ==
    (ret.call = "getProviderConfig"
        /\ ret.validator \in {"noModule", "noExport", "noValidate", "throws", "rejects"}) =>
        /\ ret.outcome.status = "threw"
        /\ Len(ret.diagAfter) = Len(ret.diagBefore) + 1
        /\ ret.diagAfter[Len(ret.diagAfter)][3] = ret.outcome.value
        /\ ret.diagAfter[Len(ret.diagAfter)][4] =
               "Check if the validator file exists in infrastructure/config/validators/"

\* the steps of a run in the order the orchestrator takes them: tracer.initialize
\* has returned, mode and symbol are resolved, loadAdapter has returned the adapter,
\* fetchQuote is called, the quote has arrived, render is called
OrchestratorOrder == <<"initialize", "context", "adapter", "fetchQuote", "quote", "render">>
IsStep(e) == \E i \in DOMAIN OrchestratorOrder : OrchestratorOrder[i] = e
IsPrefix(a, b) == Len(a) <= Len(b) /\ \A i \in DOMAIN a : a[i] = b[i]
InTrail(e) == \E i \in DOMAIN main.trail : main.trail[i] = e

\* C19: a run of main.js takes its steps in the one order initialize, mode and symbol,
\* adapter, fetchQuote, quote, render, each at most once; fetchQuote is called on the
\* adapter loadAdapter returned, render is called with the quote fetchQuote returned,
\* and after an error no further step is taken.
C19_StrictlyForward ==
    /\ IsPrefix(SelectSeq(main.trail, IsStep), OrchestratorOrder)
    /\ \A i \in DOMAIN main.trail :
           main.trail[i] = "error" => \A j \in (i + 1)..Len(main.trail) : ~IsStep(main.trail[j])
    /\ InTrail("error") => main.pc \in {"closing", "exited"}
    /\ InTrail("adapter") <=> main.adapter # <<>>
    /\ InTrail("fetchQuote") <=> main.fetch # <<>>
    /\ InTrail("render") <=> main.rendered
    /\ main.fetch # <<>> => main.fetch[1].adapter = main.adapter[1]
    /\ main.rendered =>
           /\ main.fetch[1].outcome.status = "returned"
           /\ main.quote = <<main.fetch[1].outcome.value>>
    /\ main.pc = "done" => main.rendered

\* the run went through every step and ended by itself
C19_Witness ==
    /\ main.pc = "done"
    /\ main.trail = OrchestratorOrder
    /\ main.exit = <<0>>

FetchFailed == main.fetch # <<>> /\ main.fetch[1].outcome.status = "threw"

\* C20: when fetchQuote raises, the error that reaches bootstrap() is the domain
\* error naming the cleaned symbol, with nothing of the error fetchQuote raised;
\* render is not called; and the process, unless a SIGINT ends it first, exits
\* with status 1 through the unhandledRejection handler.
C20_FetchFailureIsDomainLevel ==
    FetchFailed =>
        /\ ~main.rendered
        /\ ~InTrail("render")
        /\ main.pc # "done"
        /\ main.rejection # <<>> =>
               /\ main.rejection[1].msg = "Market discovery failed for "
               /\ main.rejection[1].symbol = main.fetch[1].symbol
               /\ DOMAIN main.rejection[1] = {"msg", "symbol", "hint"}
               /\ main.rejection[1].hint = ". Please check system logs."
               /\ diag[Len(diag)] = <<"Critical Unhandled Rejection: ", main.rejection[1]>>
        /\ (main.pc = "exited" /\ ~InTrail("SIGINT")) =>
               /\ main.exit = <<1>>
               /\ main.rejection # <<>>

\* fetchQuote raised and the run ended with status 1
C20_Witness ==
    /\ FetchFailed
    /\ main.pc = "exited"
    /\ main.exit = <<1>>
    /\ main.rejection # <<>>
    /\ main.rejection[1].symbol = "ES"

Ended == main.pc \in {"exited", "done"}
LastOfTrail == main.trail[Len(main.trail)]

\* C21: a run that has ended has status 0 exactly when it rendered a quote, showed
\* the help, or was ended by the operator's Q or by SIGINT, and status 1 exactly
\* when an error was raised to bootstrap() and no SIGINT ended the run first; a run
\* that has not ended always has a next step to take.
C21_ExitStatus ==
    /\ Ended =>
           /\ main.exit \in {<<0>>, <<1>>}
           /\ main.exit = <<0>> <=>
                  (main.rendered \/ InTrail("help") \/ InTrail("quit") \/ InTrail("SIGINT"))
           /\ main.exit = <<1>> <=> (InTrail("error") /\ ~InTrail("SIGINT"))
           /\ main.exit = <<1>> => ~main.rendered
    /\ ~Ended => ENABLED MainProgress

\* a run that failed while resolving its adapter ended with status 1
C21_Witness ==
    /\ main.pc = "exited"
    /\ main.exit = <<1>>
    /\ InTrail("context")
    /\ ~InTrail("adapter")
    /\ main.rejection # <<>>

\* C22: a SIGINT is handled in every state of a run that has not ended; it ends the
\* run at once with status 0, and nothing is done after it.
C22_InterruptEndsTheRun ==
    /\ ~Ended => ENABLED MainSigint
    /\ InTrail("SIGINT") =>
           /\ LastOfTrail = "SIGINT"
           /\ Len(SelectSeq(main.trail, LAMBDA e : e = "SIGINT")) = 1
           /\ main.pc = "exited"
           /\ main.exit = <<0>>

\* the signal arrived while fetchQuote was running
C22_Witness ==
    /\ InTrail("fetchQuote")
    /\ ~InTrail("quote")
    /\ ~InTrail("error")
    /\ LastOfTrail = "SIGINT"
    /\ main.exit = <<0>>

\* C23: a run whose command line has neither --live nor --mock asks the operator
\* for the mode before it resolves the adapter, so that the mode given to
\* loadAdapter is "1" or "2", chosen by a flag or at the prompt.
C23_ModeFromFlagOrPrompt ==
    InTrail("context") =>
        /\ main.mode \in {"1", "2"}
        /\ (~Includes(main.argv, "--live") /\ ~Includes(main.argv, "--mock")) =>
               InTrail("prompt")

\* C10: in a run of main.js in which no write fails, every span event of a trace
\* file comes after a TRACER_READY line of the same session.
C10_ReadyBeforeSpanEvents ==
    faults = 0 =>
        \A p \in Paths : \A i \in DOMAIN fs[p] :
            fs[p][i].evt # STR_TRACER_READY =>
                \E j \in 1..(i - 1) :
                    /\ fs[p][j].evt = STR_TRACER_READY
                    /\ fs[p][j].sid = fs[p][i].sid

\* a run in mock mode with the symbol "spx" whose adapter was resolved and which no
\* signal ended
MockRunEnded ==
    /\ Ended
    /\ main.mode = "2"
    /\ main.symbol = "spx"
    /\ InTrail("adapter")
    /\ ~InTrail("SIGINT")

Renders == Len(SelectSeq(main.trail, LAMBDA e : e = "render"))

SimulatedFailureLogged ==
    \E i \in DOMAIN diag : diag[i][1] = "[MockAdapter] Simulated Upstream Failure for "

ConstructDone == ret.call = "new GetMarketSnapshot"
Missing(v) == v \in {JsUndefined, JsNull}

ExecuteDone == main.pc = "finished" /\ ret.call = "traceSpan"

\* a symbol that is a string with a character other than a space
ValidSymbol(v) ==
    /\ v.type = "string"
    /\ \E i \in DOMAIN SymbolChars(v.val) : SymbolChars(v.val)[i] # " "

\* a valid symbol of the model without its spaces, in upper case
TrimmedUpper(v) ==
    FromChars(toUpperCase(SelectSeq(SymbolChars(v.val), LAMBDA c : c # " ")))

EventsOf(lines) == [i \in DOMAIN lines |-> lines[i].evt]

\* C25 as stated: execute with an invalid symbol rejects with the validation error
\* without calling fetchQuote, and with tracing enabled and the tracer initialized
\* the span appends GET_MARKET_SNAPSHOT_START and then GET_MARKET_SNAPSHOT_FAILED.
C25_InvalidSymbolIsRecorded ==
    (ExecuteDone /\ ~ValidSymbol(main.symbol[1])) =>
        /\ ret.outcome = Threw(validationFailure)
        /\ main.fetch = <<>>
        /\ ActiveSpanDone =>
               EventsOf(SpanLines) = <<STR_GET_MARKET_SNAPSHOT \o STR_START,
                                       STR_GET_MARKET_SNAPSHOT \o STR_FAILED>>

\* C25: execute with an invalid symbol rejects with the validation error without
\* calling fetchQuote; the span appends GET_MARKET_SNAPSHOT_START and then
\* GET_MARKET_SNAPSHOT_FAILED, carrying the validation error, when tracing is
\* enabled, the tracer initialized, the system level not below info and both
\* appends succeed, and appends nothing when tracing is disabled.
C25_InvalidSymbolIsRefused ==
    (ExecuteDone /\ ~ValidSymbol(main.symbol[1])) =>
        /\ ret.outcome = Threw(validationFailure)
        /\ main.fetch = <<>>
        /\ ~InTrail("fetchQuote")
        /\ (ActiveSpanDone /\ ~MoreVerbose(ret.meta) /\ ret.ioStart = "ok" /\ ret.ioEnd = "ok") =>
               /\ EventsOf(SpanLines) = <<STR_GET_MARKET_SNAPSHOT \o STR_START,
                                          STR_GET_MARKET_SNAPSHOT \o STR_FAILED>>
               /\ SpanLines[2].dat.error = validationFailure
               /\ KeepsOldLines(ret)
        /\ ~ret.enabled => ret.after = ret.before

\* execute(' ') on an active tracer wrote both lines
C25_Witness ==
    /\ ExecuteDone
    /\ main.symbol = <<JsString(" ")>>
    /\ ActiveSpanDone
    /\ Len(SpanLines) = 2
    /\ ret.outcome.status = "threw"

\* C26: execute with a valid symbol calls fetchQuote once, on the port the use case
\* was constructed with and with the symbol trimmed and in upper case; when the port
\* yields a quote, execute resolves with that quote.
C26_FetchOnceWithCleanSymbol ==
    /\ (main.pc \in {"fetch", "fetched", "finished"} /\ ValidSymbol(main.symbol[1])) =>
           /\ Len(main.fetch) = 1
           /\ main.fetch[1].symbol = TrimmedUpper(main.symbol[1])
           /\ main.fetch[1].adapter = main.useCase[1].marketDataPort.val
           /\ Len(SelectSeq(main.trail, LAMBDA e : e = "fetchQuote")) = 1
    /\ (ExecuteDone /\ ValidSymbol(main.symbol[1])
           /\ main.fetch[1].outcome.status = "returned") =>
           ret.outcome = Returned(main.fetch[1].outcome.value)

\* execute(' spx ') asked the port for "SPX" and resolved with its quote
C26_Witness ==
    /\ ExecuteDone
    /\ main.symbol = <<JsString(" spx ")>>
    /\ main.fetch[1].symbol = "SPX"
    /\ ret.outcome.status = "returned"
    /\ ret.outcome.value.symbol = JsString("SPX")

\* C30: after an execute whose fetchQuote failed and whose trace writes all
\* succeeded, the diagnostic log has grown during the call or a line of a trace
\* file carries the failure of the provider.
C30_ProviderFailureIsLogged ==
    (ExecuteDone /\ main.fetch # <<>> /\ main.fetch[1].outcome.status = "threw"
        /\ faults = 0) =>
        \/ Len(diag) > Len(main.diag)
        \/ \E p \in Paths : \E i \in DOMAIN fs[p] :
               /\ "error" \in DOMAIN fs[p][i].dat
               /\ fs[p][i].dat.error = main.fetch[1].outcome.value

QuoteMade == ret.call = "new MarketQuote"
NonNegativeNumber(v) == v.type = "number" /\ ~v.nan /\ v.val >= 0
ValidNumber(v) == v.type = "number" /\ ~v.nan

\* C28: new MarketQuote succeeds exactly when symbol is a non-empty string, price a
\* non-negative number and timestamp a number; the quote holds the symbol in upper
\* case, the source or "UNKNOWN", and every assignment to one of its fields fails
\* and leaves it as it was.
C28_QuoteConstruction ==
    /\ QuoteMade =>
           /\ ret.outcome.status = "returned" <=>
                  /\ ret.params.symbol.type = "string" /\ ret.params.symbol.val # ""
                  /\ NonNegativeNumber(ret.params.price)
                  /\ ValidNumber(ret.params.timestamp)
           /\ ret.outcome.status = "returned" =>
                  /\ ret.outcome.value.symbol =
                         JsString(FromChars(toUpperCase(SymbolChars(ret.params.symbol.val))))
                  /\ ret.outcome.value.price = ret.params.price
                  /\ ret.outcome.value.timestamp = ret.params.timestamp
                  /\ ret.params.source = JsUndefined =>
                         ret.outcome.value.source = JsString("UNKNOWN")
                  /\ ret.params.source = JsString("Test") =>
                         ret.outcome.value.source = JsString("Test")
    /\ ret.call = "assign" =>
           /\ ret.outcome.status = "threw"
           /\ main.quote = <<ret.before>>

EventKeys == {"ts", "sid", "lyr", "evt", "dat"}
SessionsSoFar == {PeerTracer.sessionID} \cup {sessionIdOf(d) : d \in 1..seed}

\* C29: with another process appending to the same trace file, every element of a
\* file is one whole event of one session, and a record call appends at most one
\* element, the whole event of its own session.
C29_WholeLinesOfOneSession ==
    /\ \A p \in Paths : \A i \in DOMAIN fs[p] :
           /\ DOMAIN fs[p][i] = EventKeys
           /\ fs[p][i].sid \in SessionsSoFar
    /\ RecordDone =>
           /\ Grew(ret) \in {0, 1}
           /\ Grew(ret) = 1 =>
                  /\ DOMAIN RecordLines[1] = EventKeys
                  /\ RecordLines[1].sid = ret.tracerBefore.sessionID
                  /\ RecordLines[1].evt = toUpperCase(ret.event)

\* a line of this process between two lines of the other process
C29_Witness ==
    \E p \in Paths : \E i, j, k \in DOMAIN fs[p] :
        /\ i < j /\ j < k
        /\ fs[p][i].sid = PeerTracer.sessionID
        /\ fs[p][j].sid # PeerTracer.sessionID
        /\ fs[p][j].evt = <<"P", "I", "N", "G">>
        /\ fs[p][k].sid = PeerTracer.sessionID

\* C35: a traceSpan call that has returned or thrown invoked its operation exactly
\* once, with tracing disabled, with the tracer uninitialized, with the span's events
\* dropped by the level filter, and with a failing trace write.
C35_OperationInvokedOnce ==
    SpanDone => ret.invoked = 1

\* a span on an enabled, initialized tracer whose START write failed
C35_Witness ==
    /\ ActiveSpanDone
    /\ ret.ioStart # "ok"
    /\ Len(SpanLines) = 1
    /\ ret.outcome = Direct(ret.op)

ReadyEvents ==
    Cardinality({<<p, i>> \in Paths \X (1..TotalLines(fs)) :
                     i \in DOMAIN fs[p] /\ fs[p][i].evt = STR_TRACER_READY})

\* C32: once every initialize call has completed, none of them having met an I/O
\* failure, the tracer holds the session id the first call generated and at most one
\* TRACER_READY event has been written, also when a second call was issued while
\* the first was suspended on mkdir.
C32_OverlappingCallIsNoOp ==
    (pendingInit = <<>> /\ seed > 0 /\ faults = 0) =>
        /\ tracer.isInitialized
        /\ tracer.sessionID = sessionIdOf(1)
        /\ ReadyEvents <= 1

\* C33: every line of every trace file carries the session id the tracer holds, in
\* its sid and, for TRACER_READY, in its data: all lines of the process carry one
\* session id, which no initialize, record or traceSpan call changes once a line is
\* written, whether initialize is retried after a failure or called again unawaited.
C33_OneSessionPerProcess ==
    \A p \in Paths : \A i \in DOMAIN fs[p] :
        /\ fs[p][i].sid = tracer.sessionID
        /\ fs[p][i].evt = STR_TRACER_READY => fs[p][i].dat.sid = tracer.sessionID

\* a retry of initialize after a failed one, followed by a traced call: the lines
\* carry the session id of the retry
C33_Witness ==
    /\ FailureLogged
    /\ tracer.sessionID = sessionIdOf(2)
    /\ ret.call \in {"record", "traceSpan"}
    /\ Grew(ret) > 0
    /\ TotalLines(fs) >= 2

\* the level an event is filtered at and the level it is filtered against: a missing
\* or empty value counts as info
FilteredAt(data) ==
    IF "level" \in DOMAIN data /\ data.level \notin {Undefined, ""} THEN data.level ELSE "info"
FilteredAgainst == IF env.LOG_LEVEL \in {Undefined, ""} THEN "info" ELSE env.LOG_LEVEL

StartOf(label) == toUpperCase(label) \o STR_START
TerminalOf(label, opOut) ==
    toUpperCase(label) \o (IF opOut.status = "returned" THEN STR_COMPLETE ELSE STR_FAILED)
EventsOfSpan(label) ==
    {toUpperCase(label) \o STR_START, toUpperCase(label) \o STR_COMPLETE,
     toUpperCase(label) \o STR_FAILED}
OwnEvents == EventsOf(SelectSeq(SpanLines, LAMBDA l : l.evt \in EventsOfSpan(ret.label)))
Written(io, event) == IF io = "ok" THEN <<event>> ELSE <<>>

\* C34: a completed span on an enabled, initialized tracer whose level passes the
\* filter has issued START and then one terminal event, COMPLETE when its operation
\* returned and FAILED when it threw: the file holds exactly these two lines of the
\* span, less the one whose write failed, never both terminal events and never a
\* terminal event before START.  The span's START is the first and its terminal event
\* the last of the lines written during the span, so that a span opened inside it has
\* closed before it; a span whose level is filtered out writes no line of its own.
C34_OneTerminalEventInOrder ==
    ActiveSpanDone =>
        IF MoreVerbose(ret.meta)
        THEN OwnEvents = <<>>
        ELSE /\ OwnEvents = Written(ret.ioStart, StartOf(ret.label))
                                \o Written(ret.ioEnd, TerminalOf(ret.label, ret.opOutcome))
             /\ ret.ioStart = "ok" => SpanLines[1].evt = StartOf(ret.label)
             /\ ret.ioEnd = "ok" =>
                    SpanLines[Len(SpanLines)].evt = TerminalOf(ret.label, ret.opOutcome)

\* the bootstrap span of main.js has closed after the span of the use case that
\* failed inside it: four lines, the inner two between the outer two
C34_Witness ==
    /\ ActiveSpanDone
    /\ ret.depth = 1
    /\ Len(SpanLines) = 4
    /\ SpanLines[1].evt = StartOf(STR_BOOTSTRAP_SEQUENCE)
    /\ SpanLines[2].evt = StartOf(STR_GET_MARKET_SNAPSHOT)
    /\ SpanLines[3].evt = toUpperCase(STR_GET_MARKET_SNAPSHOT) \o STR_FAILED
    /\ SpanLines[4].evt = toUpperCase(STR_BOOTSTRAP_SEQUENCE) \o STR_FAILED

\* the spans of a run of main.js, and the lines of their events in a trace file
SpanLabels == {STR_USER_INTERACTION, STR_BOOTSTRAP_SEQUENCE, STR_GET_MARKET_SNAPSHOT}
Starts(p, i, label) == fs[p][i].evt = StartOf(label)
Ends(p, k, label) ==
    fs[p][k].evt \in {toUpperCase(label) \o STR_COMPLETE, toUpperCase(label) \o STR_FAILED}
EndsBetween(p, j, i, label) == \E k \in (j + 1)..(i - 1) : Ends(p, k, label)

\* C31 as stated: in a run without failed trace writes, when the START line of a span
\* is written every span whose START line is earlier in the file has its COMPLETE
\* or FAILED line in between.
C31_SpansNeverOverlap ==
    faults = 0 =>
        \A p \in Paths : \A i \in DOMAIN fs[p] : \A j \in 1..(i - 1) :
            \A a, b \in SpanLabels :
                (Starts(p, j, a) /\ Starts(p, i, b)) => EndsBetween(p, j, i, a)

\* C31, amended: spans are nested, never interleaved.  At most two spans are open,
\* GET_MARKET_SNAPSHOT inside BOOTSTRAP_SEQUENCE; in a run without failed trace
\* writes a span whose START line is earlier in the file either has its COMPLETE or
\* FAILED line before the later START, or is BOOTSTRAP_SEQUENCE enclosing
\* GET_MARKET_SNAPSHOT, whose terminal line then comes first.
C31_SpansAreNested ==
    /\ Len(stack) <= 2
    /\ Len(stack) = 2 =>
           /\ stack[1].label = STR_BOOTSTRAP_SEQUENCE
           /\ stack[2].label = STR_GET_MARKET_SNAPSHOT
    /\ faults = 0 =>
           \A p \in Paths : \A i \in DOMAIN fs[p] : \A j \in 1..(i - 1) :
               \A a, b \in SpanLabels :
                   (Starts(p, j, a) /\ Starts(p, i, b)) =>
                       \/ EndsBetween(p, j, i, a)
                       \/ /\ a = STR_BOOTSTRAP_SEQUENCE
                          /\ b = STR_GET_MARKET_SNAPSHOT
                          /\ \A k \in DOMAIN fs[p] :
                                 (k > i /\ Ends(p, k, a)) => EndsBetween(p, i, k, b)

\* a run that wrote the lines of its three spans: the menu's span closed before the
\* bootstrap span opened, and the span of the use case opened and closed inside it
C31_Witness ==
    /\ faults = 0
    /\ \E p \in Paths : \E i \in DOMAIN fs[p] :
           /\ i + 5 \in DOMAIN fs[p]
           /\ Starts(p, i, STR_USER_INTERACTION)
           /\ Ends(p, i + 1, STR_USER_INTERACTION)
           /\ Starts(p, i + 2, STR_BOOTSTRAP_SEQUENCE)
           /\ Starts(p, i + 3, STR_GET_MARKET_SNAPSHOT)
           /\ Ends(p, i + 4, STR_GET_MARKET_SNAPSHOT)
           /\ Ends(p, i + 5, STR_BOOTSTRAP_SEQUENCE)

====
